---- MODULE Spec2Model ----
(***************************************************************************)
(* A model of the ComparIA dashboard's data engine: the label parser       *)
(* (lib/parse), the matrix-to-long reshaper and the derived-metrics        *)
(* synthesizer (lib/reshape) and the KPI aggregation (lib/stats).          *)
(*                                                                         *)
(* Strings are sequences of one-character strings, so that trim,           *)
(* toLowerCase, endsWith, slice, template concatenation and split are      *)
(* computed as the JavaScript runtime computes them.  Numbers are          *)
(* JavaScript numbers up to rounding error: a finite number is an exact    *)
(* rational n/d in lowest terms, and NaN, +Infinity, -Infinity, null and   *)
(* undefined are separate kinds.                                           *)
(***************************************************************************)
EXTENDS Integers, Sequences, FiniteSets, TLC

VARIABLES
    pc,                  \* which call is pending or has returned
    metricLabel,         \* parseMetricLabel: its argument
    parsed,              \* parseMetricLabel: its return value
    matrixData,          \* matrixToLong: its argument (MatrixRow[])
    longData,            \* matrixToLong: its return value (LongRow[])
    heap,                \* addDerivedMetrics: the arrays, by reference
    factors,             \* addDerivedMetrics: the caller's Factors object
    overrideWithDerived, \* addDerivedMetrics: the override flag
    result,              \* addDerivedMetrics: reference of the returned array
    kpiInput,            \* calculateKpis: its argument (LongRow[])
    kpiLocals,           \* calculateKpis: meanQuality, meanLatency, meanEnergy before rounding
    kpis,                \* calculateKpis: the returned KpiData
    mvArgs,              \* getMetricValues: its arguments (longData, metric, models, prompts)
    matrixValues,        \* getMetricValues: the returned number[][], handed to getMinMax
    minMax,              \* getMinMax: the returned {min, max}
    source,              \* round trip: the long relation the matrix is first built from
    rounds,              \* round trip: how many times the matrix has been built
    filters,             \* App: state.filters (FilterState)
    availableModels,     \* App: state.models
    availablePrompts,    \* App: state.prompts
    locationHash,        \* window.location.hash, as the parameters it encodes
    restored,            \* the filters a reader of the shared URL starts with
    isLoading,           \* App: state.isLoading
    effectQueue,         \* App: the effects of the last commit still to run, in order
    updates,             \* App: the setState updaters queued for the next render
    loadState,           \* App: where the asynchronous loadData is
    openedModels,        \* the models selected in the hash the page was opened with
    error,               \* App: state.error
    metrics              \* App: state.metrics

vars == <<pc, metricLabel, parsed, matrixData, longData, heap, factors,
          overrideWithDerived, result, kpiInput, kpiLocals, kpis,
          mvArgs, matrixValues, minMax,
          source, rounds,
          filters, availableModels, availablePrompts, locationHash, restored,
          isLoading, effectQueue, updates, loadState, openedModels, error, metrics>>

parseVars   == <<metricLabel, parsed>>
reshapeVars == <<matrixData, longData>>
derivedVars == <<heap, factors, overrideWithDerived, result>>
kpiVars     == <<kpiInput, kpiLocals, kpis>>
heatmapVars == <<mvArgs, matrixValues, minMax>>
roundVars   == <<source, rounds>>
urlVars     == <<filters, availableModels, availablePrompts, locationHash, restored>>
appVars     == <<isLoading, effectQueue, updates, loadState, openedModels, error, metrics>>

-----------------------------------------------------------------------------
(* Bounds of the model *)

MaxHead == 2      \* characters drawn freely in front of a label's suffix
MaxMatrixRows == 2 \* rows of a matrix handed to matrixToLong
MaxDerivedRows == 3 \* records of a relation handed to addDerivedMetrics
MaxKpiRows == 3   \* records of a relation handed to calculateKpis
MaxP95Rows == 10  \* latency readings handed to the percentile
MaxCellRows == 2  \* records of a relation handed to getMetricValues
MaxAxis == 2      \* models, and prompts, of a heatmap
MaxSourceRows == 3 \* records of a relation sent through build-then-reshape
MaxRounds == 2    \* build-then-reshape passes

-----------------------------------------------------------------------------
(* JavaScript strings *)

RECURSIVE SeqsUpTo(_, _)
SeqsUpTo(S, n) ==
    IF n = 0 THEN {<<>>}
    ELSE LET shorter == SeqsUpTo(S, n - 1)
         IN  shorter \cup {Append(s, c) : s \in {x \in shorter : Len(x) = n - 1}, c \in S}

WhiteSpace == {" ", "\t"}

RECURSIVE TrimStart(_)
TrimStart(s) ==
    IF s # <<>> /\ Head(s) \in WhiteSpace THEN TrimStart(Tail(s)) ELSE s

RECURSIVE TrimEnd(_)
TrimEnd(s) ==
    IF s # <<>> /\ s[Len(s)] \in WhiteSpace THEN TrimEnd(SubSeq(s, 1, Len(s) - 1)) ELSE s

\* String.prototype.trim
Trim(s) == TrimEnd(TrimStart(s))

UpperToLower ==
    [c \in {"A", "C", "E", "G", "H", "I", "L", "M", "N", "O", "Q", "S", "T", "U", "W", "Y"} |->
        CASE c = "A" -> "a" [] c = "C" -> "c" [] c = "E" -> "e" [] c = "G" -> "g"
          [] c = "H" -> "h" [] c = "I" -> "i" [] c = "L" -> "l" [] c = "M" -> "m"
          [] c = "N" -> "n" [] c = "O" -> "o" [] c = "Q" -> "q" [] c = "S" -> "s"
          [] c = "T" -> "t" [] c = "U" -> "u" [] c = "W" -> "w" [] c = "Y" -> "y"]

\* String.prototype.toLowerCase
ToLowerCase(s) ==
    [i \in 1..Len(s) |-> IF s[i] \in DOMAIN UpperToLower THEN UpperToLower[s[i]] ELSE s[i]]

\* a test that finds the suffix anywhere in the string
Contains(s, suffix) ==
    \E i \in 1..(Len(s) - Len(suffix) + 1) : SubSeq(s, i, i + Len(suffix) - 1) = suffix

\* String.prototype.endsWith
EndsWith(s, suffix) ==
    /\ Len(suffix) <= Len(s)
    /\ SubSeq(s, Len(s) - Len(suffix) + 1, Len(s)) = suffix

\* s.slice(0, -n) for n > 0
SliceOffEnd(s, n) == SubSeq(s, 1, Len(s) - n)

\* String.prototype.split with a one-character separator
RECURSIVE Split(_, _)
Split(s, sep) ==
    IF \A i \in 1..Len(s) : s[i] # sep THEN <<s>>
    ELSE LET i == CHOOSE j \in 1..Len(s) : s[j] = sep /\ \A k \in 1..(j - 1) : s[k] # sep
         IN  <<SubSeq(s, 1, i - 1)>> \o Split(SubSeq(s, i + 1, Len(s)), sep)

-----------------------------------------------------------------------------
(* Metric names *)

MetricChars(m) ==
    CASE m = "quality"         -> <<"q", "u", "a", "l", "i", "t", "y">>
      [] m = "latency_s"       -> <<"l", "a", "t", "e", "n", "c", "y", "_", "s">>
      [] m = "energy_wh"       -> <<"e", "n", "e", "r", "g", "y", "_", "w", "h">>
      [] m = "co2_g"           -> <<"c", "o", "2", "_", "g">>
      [] m = "led_hours"       -> <<"l", "e", "d", "_", "h", "o", "u", "r", "s">>
      [] m = "onlinevideo_min" -> <<"o", "n", "l", "i", "n", "e", "v", "i", "d", "e", "o", "_", "m", "i", "n">>
      [] m = "led_minutes"     -> <<"l", "e", "d", "_", "m", "i", "n", "u", "t", "e", "s">>

\* type MetricName
MetricName == {"quality", "latency_s", "energy_wh", "co2_g", "led_hours", "onlinevideo_min"}

\* const SUPPORTED_METRICS, in its order
SUPPORTED_METRICS ==
    <<"quality", "latency_s", "energy_wh", "co2_g", "led_hours", "onlinevideo_min">>

-----------------------------------------------------------------------------
(* lib/parse: parseMetricLabel *)

NoParse == [ok |-> FALSE, model |-> <<>>, metric |-> ""]
Parse(model, metric) == [ok |-> TRUE, model |-> model, metric |-> metric]

\* a bug the empty-model test guards against: any model, even an empty one, is accepted
TruthyAlways(s) == TRUE

\* `if (model)`: a non-empty string is truthy
Truthy(s) == s # <<>>

\* one suffix test of the loop body: the model, when the suffix matches and the
\* remainder is accepted
SuffixMatch(trimmed, suffix) ==
    /\ EndsWith(trimmed, suffix)
    /\ Truthy(SliceOffEnd(trimmed, Len(suffix)))

RECURSIVE ParseFrom(_, _)
ParseFrom(trimmed, i) ==
    IF i > Len(SUPPORTED_METRICS) THEN NoParse
    ELSE LET metric == SUPPORTED_METRICS[i]
             metricSuffix == <<"_">> \o MetricChars(metric)
             metricSuffixHyphen == <<"-">> \o MetricChars(metric)
         IN  IF SuffixMatch(trimmed, metricSuffix)
             THEN Parse(SliceOffEnd(trimmed, Len(metricSuffix)), metric)
             ELSE IF SuffixMatch(trimmed, metricSuffixHyphen)
             THEN Parse(SliceOffEnd(trimmed, Len(metricSuffixHyphen)), metric)
             ELSE ParseFrom(trimmed, i + 1)

parseMetricLabel(label) ==
    LET trimmed == ToLowerCase(Trim(label))
    IN  IF trimmed = <<>> THEN NoParse ELSE ParseFrom(trimmed, 1)

-----------------------------------------------------------------------------
(* Labels handed to the parser: free characters, then up to two suffixes,
   then padding *)

HeadAlphabet == {"a", "M", "_", "-", " ", ":"}

LabelMids == {<<>>} \cup {<<"_">> \o MetricChars(m) : m \in {"quality", "co2_g"}}

LabelTails ==
    {<<>>}
    \cup {<<sep>> \o MetricChars(m) : sep \in {"_", "-"}, m \in MetricName}
    \cup {MetricChars(m) : m \in MetricName}
    \cup {<<"_", "Q", "u", "a", "l", "i", "t", "y">>,
          <<"-", "L", "A", "T", "E", "N", "C", "Y", "_", "S">>,
          <<"_">> \o MetricChars("led_minutes"),
          <<".", "q", "u", "a", "l", "i", "t", "y">>,
          <<"_", "h", "o", "u", "r", "s">>,
          <<"_", "g">>}

LabelPads == {<<>>, <<" ">>, <<"x">>}

Labels ==
    {h \o m \o t \o p : h \in SeqsUpTo(HeadAlphabet, MaxHead), m \in LabelMids,
                        t \in LabelTails, p \in LabelPads}

-----------------------------------------------------------------------------
(* JavaScript numbers, null and undefined *)

Abs(x) == IF x < 0 THEN -x ELSE x

RECURSIVE GCD(_, _)
GCD(a, b) == IF b = 0 THEN a ELSE GCD(b, a % b)

\* the finite number n/d (d # 0), in lowest terms with a positive denominator
Num(n, d) ==
    LET g == GCD(Abs(n), Abs(d))
        s == IF d < 0 THEN -1 ELSE 1
    IN  [k |-> "num", n |-> (s * n) \div g, d |-> (s * d) \div g]

Int2Num(n) == Num(n, 1)
NaN    == [k |-> "nan", n |-> 0, d |-> 1]
PosInf == [k |-> "inf", n |-> 0, d |-> 1]
NegInf == [k |-> "ninf", n |-> 0, d |-> 1]
Null   == [k |-> "null", n |-> 0, d |-> 1]
Undef  == [k |-> "undef", n |-> 0, d |-> 1]

\* ToNumber: null is 0, undefined is NaN
ToNumber(v) == IF v.k = "null" THEN Int2Num(0) ELSE IF v.k = "undef" THEN NaN ELSE v

\* the global isNaN, which converts its argument to a number first
isNaN(v) == ToNumber(v).k = "nan"

\* the global isFinite, which converts its argument to a number first
isFinite(v) == ToNumber(v).k = "num"

\* Number.isFinite, which converts nothing
NumberIsFinite(v) == v.k = "num"

\* typeof v === 'number'
IsNumberType(v) == v.k \in {"num", "nan", "inf", "ninf"}

Sign(v) ==
    CASE v.k = "inf" -> 1
      [] v.k = "ninf" -> -1
      [] v.k = "num" -> (IF v.n > 0 THEN 1 ELSE IF v.n < 0 THEN -1 ELSE 0)

Signed(s) == IF s > 0 THEN PosInf ELSE NegInf

\* a + b on numbers
JsAdd(a, b) ==
    IF a.k = "nan" \/ b.k = "nan" THEN NaN
    ELSE IF a.k = "num" /\ b.k = "num" THEN Num(a.n * b.d + b.n * a.d, a.d * b.d)
    ELSE IF a.k = "num" THEN b
    ELSE IF b.k = "num" THEN a
    ELSE IF a.k = b.k THEN a ELSE NaN

\* a * b on numbers
JsMul(a, b) ==
    IF a.k = "nan" \/ b.k = "nan" THEN NaN
    ELSE IF a.k = "num" /\ b.k = "num" THEN Num(a.n * b.n, a.d * b.d)
    ELSE IF Sign(a) * Sign(b) = 0 THEN NaN
    ELSE Signed(Sign(a) * Sign(b))

\* a / b on numbers (a zero divisor counts as +0)
JsDiv(a, b) ==
    IF a.k = "nan" \/ b.k = "nan" THEN NaN
    ELSE IF a.k = "num" /\ b.k = "num"
         THEN IF b.n # 0 THEN Num(a.n * b.d, a.d * b.n)
              ELSE IF a.n = 0 THEN NaN ELSE Signed(Sign(a))
    ELSE IF a.k = "num" THEN Int2Num(0)
    ELSE IF b.k = "num" THEN Signed(Sign(a) * (IF Sign(b) < 0 THEN -1 ELSE 1))
    ELSE NaN

\* a truncating rounding, a plausible slip for Math.round
MathTrunc(v) ==
    IF v.k = "num" THEN Int2Num(Sign(v) * (Abs(v.n) \div v.d)) ELSE v

\* Math.round: the nearest integer, a tie going up
MathRound(v) ==
    IF v.k = "num" THEN Int2Num((2 * v.n + v.d) \div (2 * v.d)) ELSE v

\* a < b on finite numbers
NumLess(a, b) == a.n * b.d < b.n * a.d

-----------------------------------------------------------------------------
(* lib/reshape: matrixToLong *)

LongRow(model, prompt, metric, value) ==
    [model |-> model, prompt |-> prompt, metric |-> metric, value |-> value]

\* a truthiness test of the cell, a plausible slip: it drops 0 as well
CellKeptIfTruthy(value) == value # Null /\ ~isNaN(value) /\ value # Int2Num(0)

\* `value !== null && !isNaN(value)`
CellKept(value) == value # Null /\ ~isNaN(value)

\* the forEach over Object.entries(row.values): the records one row pushes
RECURSIVE RowRecords(_, _, _)
RowRecords(model, metric, entries) ==
    IF entries = <<>> THEN <<>>
    ELSE LET prompt == Head(entries)[1]
             value == Head(entries)[2]
         IN  (IF CellKept(value) THEN <<LongRow(model, prompt, metric, value)>> ELSE <<>>)
             \o RowRecords(model, metric, Tail(entries))

\* the loop with `break` where the code has `continue`: it stops at the first
\* row whose label does not parse
RECURSIVE MatrixToLongStopping(_, _, _)
MatrixToLongStopping(rows, i, acc) ==
    IF i > Len(rows) THEN acc
    ELSE LET row == rows[i]
             p == parseMetricLabel(row.metricLabel)
         IN  IF ~p.ok
             THEN acc
             ELSE MatrixToLongStopping(rows, i + 1, acc \o RowRecords(p.model, p.metric, row.values))

\* the body of the loop over matrixData, from row i on, appended to acc
RECURSIVE MatrixToLongFrom(_, _, _)
MatrixToLongFrom(rows, i, acc) ==
    IF i > Len(rows) THEN acc
    ELSE LET row == rows[i]
             p == parseMetricLabel(row.metricLabel)
         IN  IF ~p.ok
             THEN MatrixToLongFrom(rows, i + 1, acc)
             ELSE MatrixToLongFrom(rows, i + 1, acc \o RowRecords(p.model, p.metric, row.values))

matrixToLong(rows) == MatrixToLongFrom(rows, 1, <<>>)

-----------------------------------------------------------------------------
(* Matrices handed to the reshaper.  A row's values object is the sequence of
   its entries in Object.entries order, its keys distinct. *)

ModelA  == <<"a">>
ModelAB == <<"a", ":", "b">>
PromptB == <<"b">>
PromptC == <<"c">>

CellValues == {Null, Undef, NaN, PosInf, NegInf, Int2Num(0), Num(9, 2)}

RowLabels ==
    {ModelA \o <<"_">> \o MetricChars("quality"),
     <<" ", "A", ":", "b", "-", "E", "n", "e", "r", "g", "y", "_", "w", "h">>,
     MetricChars("quality"),
     ModelA \o <<"_">> \o MetricChars("led_minutes")}

RowValues ==
    {b \o c : b \in {<<>>} \cup {<<<<PromptB, v>>>> : v \in CellValues},
              c \in {<<>>, <<<<PromptC, Int2Num(1)>>>>}}

MatrixRows == [metricLabel : RowLabels, values : RowValues]

-----------------------------------------------------------------------------
(* lib/reshape: addDerivedMetrics.  Arrays live in a heap, a sequence indexed
   by reference, so that copying an array and aliasing it differ. *)

\* `result = longData`: the same array under another name
AliasArray(h, ref) == [heap |-> h, ref |-> ref]

\* `[...longData]`: a new array with the same elements
SpreadCopy(h, ref) == [heap |-> Append(h, h[ref]), ref |-> Len(h) + 1]

\* `${row.model}:${row.prompt}`
PairKey(model, prompt) == model \o <<":">> \o prompt

\* `${key}:${metric}`
MetricKey(key, metric) == key \o <<":">> \o MetricChars(metric)

\* Map.prototype.set on a map kept as its entries in insertion order
MapSet(map, key, value) ==
    IF \E i \in 1..Len(map) : map[i].key = key
    THEN [i \in 1..Len(map) |-> IF map[i].key = key THEN [key |-> key, value |-> value] ELSE map[i]]
    ELSE Append(map, [key |-> key, value |-> value])

\* the metrics the first loop tracks as already present
TrackedDerived == {"co2_g", "led_minutes", "onlinevideo_min"}

\* the first loop: energyMap and existingMetrics after rows i..
RECURSIVE ScanFrom(_, _, _, _)
ScanFrom(rows, i, energyMap, existingMetrics) ==
    IF i > Len(rows) THEN [energyMap |-> energyMap, existingMetrics |-> existingMetrics]
    ELSE LET row == rows[i]
             key == PairKey(row.model, row.prompt)
         IN  ScanFrom(rows, i + 1,
                 IF row.metric = "energy_wh" THEN MapSet(energyMap, key, row.value) ELSE energyMap,
                 IF row.metric \in TrackedDerived
                 THEN existingMetrics \cup {MetricKey(key, row.metric)}
                 ELSE existingMetrics)

\* Math.round(value * 1000) / 1000
Round3(value) == JsDiv(MathRound(JsMul(value, Int2Num(1000))), Int2Num(1000))

\* the derivedMetrics array built for one energy reading
DerivedMetricsOf(energyWh, f) ==
    <<[metric |-> "co2_g",
       value |-> JsMul(JsDiv(energyWh, Int2Num(1000)), f.gridIntensityGCO2PerKwh)],
      [metric |-> "led_minutes",
       value |-> JsMul(JsDiv(energyWh, f.ledBulbWatts), Int2Num(60))],
      [metric |-> "onlinevideo_min",
       value |-> JsDiv(energyWh, f.onlineVideoWhPerMin)]>>

\* Array.prototype.findIndex for (model, prompt, metric); 0 stands for -1
FindIndex(arr, model, prompt, metric) ==
    LET hits == {i \in 1..Len(arr) :
                    arr[i].model = model /\ arr[i].prompt = prompt /\ arr[i].metric = metric}
    IN  IF hits = {} THEN 0 ELSE CHOOSE i \in hits : \A j \in hits : i <= j

\* arr.splice(i, 1)
Splice1(arr, i) == SubSeq(arr, 1, i - 1) \o SubSeq(arr, i + 1, Len(arr))

\* `const [model, prompt] = key.split(':')`
KeyModel(key) == Split(key, ":")[1]
KeyPrompt(key) == Split(key, ":")[2]

\* the body of derivedMetrics.forEach for one derived metric, on the result array
AddOne(arr, key, d, existingMetrics, override) ==
    LET model == KeyModel(key)
        prompt == KeyPrompt(key)
        shouldAdd == override \/ MetricKey(key, d.metric) \notin existingMetrics
        existingIndex == FindIndex(arr, model, prompt, d.metric)
        cleared == IF override /\ existingIndex > 0 THEN Splice1(arr, existingIndex) ELSE arr
    IN  IF shouldAdd
        THEN Append(cleared, LongRow(model, prompt, d.metric, Round3(d.value)))
        ELSE arr

\* energyMap.forEach from entry i on, derived metric j on
RECURSIVE GenerateFrom(_, _, _, _, _, _, _)
GenerateFrom(arr, energyMap, i, j, f, existingMetrics, override) ==
    IF i > Len(energyMap) THEN arr
    ELSE IF j > 3 THEN GenerateFrom(arr, energyMap, i + 1, 1, f, existingMetrics, override)
    ELSE GenerateFrom(
             AddOne(arr, energyMap[i].key, DerivedMetricsOf(energyMap[i].value, f)[j],
                    existingMetrics, override),
             energyMap, i, j + 1, f, existingMetrics, override)

\* the whole call on the heap: the heap afterwards and the returned reference
addDerivedMetrics(h, longDataRef, f, override) ==
    LET copy == SpreadCopy(h, longDataRef)
        scan == ScanFrom(h[longDataRef], 1, <<>>, {})
        out == GenerateFrom(copy.heap[copy.ref], scan.energyMap, 1, 1, f,
                            scan.existingMetrics, override)
    IN  [heap |-> [copy.heap EXCEPT ![copy.ref] = out], ref |-> copy.ref]

\* const DEFAULT_FACTORS
DEFAULT_FACTORS ==
    [ledBulbWatts |-> Int2Num(7), gridIntensityGCO2PerKwh |-> Int2Num(300),
     onlineVideoWhPerMin |-> Num(9, 10)]

-----------------------------------------------------------------------------
(* Relations and factors handed to the synthesizer *)

DerivedInputRows ==
    {LongRow(m, p, "energy_wh", v) : m \in {ModelA, ModelAB}, p \in {PromptB, PromptC},
                                     v \in {Int2Num(10), Num(61, 10000)}}
    \cup {LongRow(ModelA, p, k, Int2Num(5)) : p \in {PromptB, PromptC}, k \in {"co2_g", "led_hours"}}

FactorChoices ==
    {DEFAULT_FACTORS,
     [ledBulbWatts |-> Num(21, 2), gridIntensityGCO2PerKwh |-> Int2Num(475),
      onlineVideoWhPerMin |-> Num(3, 2)],
     [ledBulbWatts |-> Int2Num(0), gridIntensityGCO2PerKwh |-> Int2Num(300),
      onlineVideoWhPerMin |-> Num(9, 10)]}

-----------------------------------------------------------------------------
(* lib/stats: calculateMean, calculateSum, calculateP95, calculateKpis *)

\* values.reduce((acc, val) => acc + val, 0)
RECURSIVE SumFrom(_, _, _)
SumFrom(values, i, acc) ==
    IF i > Len(values) THEN acc ELSE SumFrom(values, i + 1, JsAdd(acc, values[i]))

ReduceSum(values) == SumFrom(values, 1, Int2Num(0))

calculateMean(values) ==
    IF Len(values) = 0 THEN Null
    ELSE LET validValues ==
                 SelectSeq(values, LAMBDA v : IsNumberType(v) /\ ~isNaN(v) /\ isFinite(v))
         IN  IF Len(validValues) = 0 THEN Null
             ELSE JsDiv(ReduceSum(validValues), Int2Num(Len(validValues)))

\* the sum without the tests for an empty list, a plausible slip: reduce
\* returns its start value 0
calculateSumOrZero(values) ==
    ReduceSum(SelectSeq(values, LAMBDA v : ~isNaN(v) /\ isFinite(v)))

calculateSum(values) ==
    IF Len(values) = 0 THEN Null
    ELSE LET validValues == SelectSeq(values, LAMBDA v : ~isNaN(v) /\ isFinite(v))
         IN  IF Len(validValues) = 0 THEN Null ELSE ReduceSum(validValues)

\* insertion of v into an ascending sequence, after the elements not greater
RECURSIVE InsertSorted(_, _)
InsertSorted(sorted, v) ==
    IF sorted = <<>> THEN <<v>>
    ELSE IF NumLess(ToNumber(v), ToNumber(Head(sorted))) THEN <<v>> \o sorted
    ELSE <<Head(sorted)>> \o InsertSorted(Tail(sorted), v)

\* [...values].sort((a, b) => a - b) on values that convert to finite numbers
RECURSIVE SortAscending(_)
SortAscending(values) ==
    IF values = <<>> THEN <<>>
    ELSE InsertSorted(SortAscending(SubSeq(values, 1, Len(values) - 1)), values[Len(values)])

\* Math.floor in place of Math.ceil, a plausible slip
Floor95(n) == (n * 95) \div 100

\* Math.ceil(n * 0.95), the product taken exactly
Ceil95(n) == (n * 95 + 99) \div 100

Max(a, b) == IF a >= b THEN a ELSE b

calculateP95(values) ==
    IF Len(values) = 0 THEN Null
    ELSE LET validValues == SelectSeq(values, LAMBDA v : ~isNaN(v) /\ isFinite(v))
         IN  IF Len(validValues) = 0 THEN Null
             ELSE LET sorted == SortAscending(validValues)
                      index == Ceil95(Len(sorted)) - 1
                  IN  sorted[Max(0, index) + 1]

\* the grouping loop without the finiteness test of the value, a plausible slip
RECURSIVE GroupFromUnfiltered(_, _, _, _)
GroupFromUnfiltered(rows, i, metric, byModel) ==
    IF i > Len(rows) THEN byModel
    ELSE LET row == rows[i]
         IN  IF row.metric # metric
             THEN GroupFromUnfiltered(rows, i + 1, metric, byModel)
             ELSE LET hit == {j \in 1..Len(byModel) : byModel[j].key = row.model}
                      arr == IF hit = {} THEN <<>> ELSE byModel[CHOOSE j \in hit : TRUE].value
                  IN  GroupFromUnfiltered(rows, i + 1, metric,
                                          MapSet(byModel, row.model, Append(arr, row.value)))

\* the grouping loop: byModel, a map kept as its entries in insertion order,
\* after rows i..
RECURSIVE GroupFrom(_, _, _, _)
GroupFrom(rows, i, metric, byModel) ==
    IF i > Len(rows) THEN byModel
    ELSE LET row == rows[i]
         IN  IF row.metric # metric \/ ~NumberIsFinite(row.value)
             THEN GroupFrom(rows, i + 1, metric, byModel)
             ELSE LET hit == {j \in 1..Len(byModel) : byModel[j].key = row.model}
                      arr == IF hit = {} THEN <<>> ELSE byModel[CHOOSE j \in hit : TRUE].value
                  IN  GroupFrom(rows, i + 1, metric, MapSet(byModel, row.model, Append(arr, row.value)))

\* Map.prototype.get; Undef when the key is absent
MapGet(map, key) ==
    LET hit == {j \in 1..Len(map) : map[j].key = key}
    IN  IF hit = {} THEN Undef ELSE map[CHOOSE j \in hit : TRUE].value

\* a pooled mean of all the metric's values in place of the mean of the model
\* means: every record weighs the same, not every model
calculatePooledAverages(rows, metric) ==
    LET byModel == GroupFrom(rows, 1, metric, <<>>)
        perModelAverages ==
            [j \in 1..Len(byModel) |->
                [key |-> byModel[j].key,
                 value |-> JsDiv(ReduceSum(byModel[j].value), Int2Num(Len(byModel[j].value)))]]
        all == SelectSeq(rows, LAMBDA r : r.metric = metric /\ NumberIsFinite(r.value))
    IN  [perModelAverages |-> perModelAverages,
         macroAverage |-> IF Len(all) > 0
                          THEN JsDiv(ReduceSum([i \in 1..Len(all) |-> all[i].value]),
                                     Int2Num(Len(all)))
                          ELSE Null]

calculatePerModelAverages(rows, metric) ==
    LET byModel == GroupFrom(rows, 1, metric, <<>>)
        \* every group holds at least one value, so each has a mean
        perModelAverages ==
            [j \in 1..Len(byModel) |->
                [key |-> byModel[j].key,
                 value |-> JsDiv(ReduceSum(byModel[j].value), Int2Num(Len(byModel[j].value)))]]
        validMeans == [j \in 1..Len(perModelAverages) |-> perModelAverages[j].value]
    IN  [perModelAverages |-> perModelAverages,
         macroAverage |-> IF Len(validMeans) > 0
                          THEN JsDiv(ReduceSum(validMeans), Int2Num(Len(validMeans)))
                          ELSE Null]

\* new Set(longData.map(r => r.model)), in insertion order
RECURSIVE UniqueFrom(_, _, _)
UniqueFrom(rows, i, acc) ==
    IF i > Len(rows) THEN acc
    ELSE UniqueFrom(rows, i + 1,
             IF \E j \in 1..Len(acc) : acc[j] = rows[i].model THEN acc
             ELSE Append(acc, rows[i].model))

\* x ?? null
OrNull(v) == IF v \in {Undef, Null} THEN Null ELSE v

\* v !== null ? Math.round(v * scale) / scale : null
RoundTo(v, scale) ==
    IF v # Null THEN JsDiv(MathRound(JsMul(v, Int2Num(scale))), Int2Num(scale)) ELSE Null

\* the if/else over useMacroAverage: the three means on the macro path (the
\* average of the per-model means) or on the single-model path (the lookup of
\* the first model's own mean)
KpiMeansOn(rows, useMacroAverage) ==
    LET uniqueModels == UniqueFrom(rows, 1, <<>>)
        qualityData == calculatePerModelAverages(rows, "quality")
        latencyData == calculatePerModelAverages(rows, "latency_s")
        energyData == calculatePerModelAverages(rows, "energy_wh")
        \* Array.from(uniqueModels)[0] is undefined for an empty set, and
        \* Map.get(undefined) finds no entry
        single(data) ==
            IF uniqueModels = <<>> THEN Null
            ELSE OrNull(MapGet(data.perModelAverages, uniqueModels[1]))
    IN  [meanQuality |-> IF useMacroAverage THEN qualityData.macroAverage ELSE single(qualityData),
         meanLatency |-> IF useMacroAverage THEN latencyData.macroAverage ELSE single(latencyData),
         meanEnergy |-> IF useMacroAverage THEN energyData.macroAverage ELSE single(energyData)]

\* row.value of the rows of one metric
ValuesOf(rows, metric) ==
    LET sel == SelectSeq(rows, LAMBDA r : r.metric = metric)
    IN  [i \in 1..Len(sel) |-> sel[i].value]

\* the quotient without the test of the divisor's sign, a plausible slip
QualityPerWhUnguarded(meanQuality, meanEnergy) ==
    IF meanQuality # Null /\ meanEnergy # Null THEN JsDiv(meanQuality, meanEnergy) ELSE Null

\* let qualityPerWh = null; if (meanQuality !== null && meanEnergy !== null &&
\* meanEnergy > 0) qualityPerWh = meanQuality / meanEnergy
QualityPerWhOf(meanQuality, meanEnergy) ==
    IF meanQuality # Null /\ meanEnergy # Null /\ Sign(meanEnergy) > 0
    THEN JsDiv(meanQuality, meanEnergy)
    ELSE Null

\* the values of the function's locals before the return statement
KpiLocalsOf(rows) ==
    LET uniqueModels == UniqueFrom(rows, 1, <<>>)
        useMacroAverage == Len(uniqueModels) > 1
        means == KpiMeansOn(rows, useMacroAverage)
        meanQuality == means.meanQuality
        meanLatency == means.meanLatency
        meanEnergy == means.meanEnergy
        latencyValues == ValuesOf(rows, "latency_s")
        energyValues == ValuesOf(rows, "energy_wh")
    IN  [useMacroAverage |-> useMacroAverage,
         meanQuality |-> meanQuality,
         meanLatency |-> meanLatency,
         meanEnergy |-> meanEnergy,
         p95Latency |-> calculateP95(latencyValues),
         totalEnergy |-> calculateSum(energyValues),
         qualityPerWh |-> QualityPerWhOf(meanQuality, meanEnergy)]

\* x.toFixed(...) throws a TypeError when x is not a number
ToFixedThrows(v) == ~IsNumberType(v)

\* the call throws: one of its toFixed calls has a receiver that is not a
\* number (mean.toFixed per model, macroAverage.toFixed under its null test;
\* the `?.toFixed` calls of the single-model path skip null and undefined)
KpiThrows(rows) ==
    \E metric \in {"quality", "latency_s", "energy_wh"} :
        LET data == calculatePerModelAverages(rows, metric)
        IN  \/ \E j \in 1..Len(data.perModelAverages) :
                   ToFixedThrows(data.perModelAverages[j].value)
            \/ data.macroAverage # Null /\ ToFixedThrows(data.macroAverage)

\* the returned KpiData, rounded at the boundary
KpiDataOf(l) ==
    [meanQuality |-> RoundTo(l.meanQuality, 100),
     meanLatency |-> RoundTo(l.meanLatency, 1000),
     p95Latency |-> RoundTo(l.p95Latency, 1000),
     meanEnergy |-> RoundTo(l.meanEnergy, 10000),
     totalEnergy |-> RoundTo(l.totalEnergy, 10000),
     qualityPerWh |-> RoundTo(l.qualityPerWh, 100)]

calculateKpis(rows) == KpiDataOf(KpiLocalsOf(rows))

-----------------------------------------------------------------------------
(* Relations handed to the aggregation: two models measured on the three
   aggregated metrics, some values not finite, and a third model that has
   only a derived metric *)

ModelC == <<"c">>

KpiInputRows ==
    {LongRow(m, PromptB, k, Int2Num(1)) : m \in {ModelA, ModelAB},
                                          k \in {"quality", "latency_s", "energy_wh"}}
    \cup {LongRow(m, PromptC, k, Int2Num(4)) : m \in {ModelA, ModelAB},
                                               k \in {"quality", "latency_s", "energy_wh"}}
    \cup {LongRow(ModelA, PromptC, "quality", PosInf),
          LongRow(ModelAB, PromptB, "energy_wh", NaN),
          LongRow(ModelAB, PromptC, "energy_wh", Int2Num(0)),
          LongRow(ModelA, PromptB, "energy_wh", Int2Num(-2)),
          LongRow(ModelC, PromptB, "co2_g", Int2Num(5))}

\* Latency readings handed to the percentile: n readings whose values walk
\* 0..n with a stride (stride 1 is 1..n ascending, other strides mix the order), spread
\* over one model or two, with at most one reading replaced by a value that is
\* not finite
LatencyRows(n, stride, twoModels, bad, badValue) ==
    [i \in 1..n |->
        LongRow(IF twoModels /\ i % 2 = 0 THEN ModelAB ELSE ModelA,
                PromptB, "latency_s",
                IF i = bad THEN badValue ELSE Int2Num((i * stride) % (n + 1)))]

P95Inputs ==
    {LatencyRows(n, stride, twoModels, bad, badValue) :
        n \in 0..MaxP95Rows, stride \in {1, 2, MaxP95Rows}, twoModels \in BOOLEAN,
        bad \in 0..MaxP95Rows, badValue \in {NaN, PosInf}}

-----------------------------------------------------------------------------
(* lib/stats: getMetricValues and getMinMax, the heatmap's matrix *)

\* a last-match lookup in place of Array.prototype.find, a plausible slip
FindLast(rows, model, prompt, metric) ==
    LET hit == {i \in 1..Len(rows) :
                   rows[i].model = model /\ rows[i].prompt = prompt /\ rows[i].metric = metric}
    IN  IF hit = {} THEN Undef ELSE rows[CHOOSE i \in hit : \A j \in hit : j <= i].value

\* longData.find(d => d.model === ... && d.prompt === ... && d.metric === metric)?.value
FindFirst(rows, model, prompt, metric) ==
    LET hit == {i \in 1..Len(rows) :
                   rows[i].model = model /\ rows[i].prompt = prompt /\ rows[i].metric = metric}
    IN  IF hit = {} THEN Undef ELSE rows[CHOOSE i \in hit : \A j \in hit : i <= j].value

\* x ?? NaN
OrNaN(v) == IF v \in {Undef, Null} THEN NaN ELSE v

getMetricValues(rows, metric, models, prompts) ==
    [i \in 1..Len(models) |->
        [j \in 1..Len(prompts) |-> OrNaN(FindFirst(rows, models[i], prompts[j], metric))]]

\* a < b on numbers that are not NaN
LessThan(a, b) ==
    IF a.k = "num" /\ b.k = "num" THEN NumLess(a, b)
    ELSE a # b /\ (a.k = "ninf" \/ b.k = "inf")

\* Math.min and Math.max on numbers that are not NaN
MathMin(a, b) == IF LessThan(b, a) THEN b ELSE a
MathMax(a, b) == IF LessThan(a, b) THEN b ELSE a

\* the cell test without isFinite, a plausible slip
CellCountsNotNaN(value) == ~isNaN(value)

\* !isNaN(value) && isFinite(value)
CellCounts(value) == ~isNaN(value) /\ isFinite(value)

\* the inner loop over one row, from cell j, with the running {min, max}
RECURSIVE ScanRow(_, _, _)
ScanRow(row, j, acc) ==
    IF j > Len(row) THEN acc
    ELSE ScanRow(row, j + 1,
             IF CellCounts(row[j])
             THEN [min |-> MathMin(acc.min, row[j]), max |-> MathMax(acc.max, row[j])]
             ELSE acc)

\* the outer loop over the rows, from row i
RECURSIVE ScanRows(_, _, _)
ScanRows(values, i, acc) ==
    IF i > Len(values) THEN acc
    ELSE ScanRows(values, i + 1, ScanRow(values[i], 1, acc))

getMinMax(values) ==
    LET scanned == ScanRows(values, 1, [min |-> PosInf, max |-> NegInf])
    IN  IF scanned.min = PosInf \/ scanned.max = NegInf
        THEN [min |-> Int2Num(0), max |-> Int2Num(1)]
        ELSE scanned

\* Relations, models and prompts handed to the matrix builder: a triple held
\* twice with different values, cells that are +Infinity and -Infinity, a model
\* without a finite value and a second metric
CellRows ==
    {LongRow(ModelA, PromptB, "quality", Int2Num(1)),
     LongRow(ModelA, PromptB, "quality", Int2Num(4)),
     LongRow(ModelA, PromptC, "quality", PosInf),
     LongRow(ModelC, PromptB, "quality", NegInf),
     LongRow(ModelC, PromptC, "latency_s", Int2Num(7))}

MvArgs ==
    [longData : SeqsUpTo(CellRows, MaxCellRows),
     metric : {"quality", "latency_s"},
     models : SeqsUpTo({ModelA, ModelC}, MaxAxis),
     prompts : SeqsUpTo({PromptB, PromptC}, MaxAxis)]

-----------------------------------------------------------------------------
(* The matrix construction of the reshape round trip: one row per (model,
   metric) in order of first appearance, labelled model + '_' + metric, its
   values object holding the prompt-to-value entries in order of appearance *)

\* the records of the relation for one (model, metric), as prompt/value entries
EntriesOf(relation, model, metric) ==
    LET sel == SelectSeq(relation, LAMBDA r : r.model = model /\ r.metric = metric)
    IN  [i \in 1..Len(sel) |-> <<sel[i].prompt, sel[i].value>>]

\* the rows for the records from position i on, `seen` the (model, metric)
\* pairs that have their row already
RECURSIVE BuildRowsFrom(_, _, _)
BuildRowsFrom(relation, i, seen) ==
    IF i > Len(relation) THEN <<>>
    ELSE LET r == relation[i]
         IN  IF <<r.model, r.metric>> \in seen
             THEN BuildRowsFrom(relation, i + 1, seen)
             ELSE <<[metricLabel |-> r.model \o <<"_">> \o MetricChars(r.metric),
                     values |-> EntriesOf(relation, r.model, r.metric)]>>
                  \o BuildRowsFrom(relation, i + 1, seen \cup {<<r.model, r.metric>>})

BuildMatrixRows(relation) == BuildRowsFrom(relation, 1, {})

\* Well-formed relations sent through the round trip: finite values (0 among
\* them), lower-case trimmed model names, one of which ends like a row label,
\* and no (model, prompt, metric) held twice
ModelAQ == ModelA \o <<"-">> \o MetricChars("co2_g")

SourceRows ==
    {LongRow(m, p, k, v) : m \in {ModelA, ModelAQ}, p \in {PromptB, PromptC},
                           k \in {"quality", "co2_g"}, v \in {Int2Num(0), Num(9, 2)}}

WellFormed(relation) ==
    \A i, j \in 1..Len(relation) :
        (i # j) => <<relation[i].model, relation[i].prompt, relation[i].metric>>
                     # <<relation[j].model, relation[j].prompt, relation[j].metric>>

SourceRelations == {r \in SeqsUpTo(SourceRows, MaxSourceRows) : WellFormed(r)}

-----------------------------------------------------------------------------
(* lib/urlState: encodeUrlState and decodeUrlState.  The hash is kept as the
   parameters of its query string in order, each value as the characters that
   URLSearchParams.toString writes for it. *)

\* the string 'ALL'
ALL == <<"A", "L", "L">>

\* drilldownPrompt: null (no prompt is this one-element sequence)
NoPrompt == <<"null">>

\* the filters of the initial AppState
DefaultFilters ==
    [selectedModel |-> ALL,
     selectedPrompt |-> ALL,
     selectedMetric |-> "quality",
     modelSelection |-> [type |-> "all", models |-> <<>>],
     viewMode |-> "global",
     drilldownPrompt |-> NoPrompt]

\* Array.prototype.join
RECURSIVE Join(_, _)
Join(strings, sep) ==
    IF strings = <<>> THEN <<>>
    ELSE IF Len(strings) = 1 THEN strings[1]
    ELSE strings[1] \o <<sep>> \o Join(Tail(strings), sep)

\* the application/x-www-form-urlencoded serializer of URLSearchParams, on the
\* characters of the model: a space becomes '+', ',' and ':' are
\* percent-encoded, letters, digits, '_' and '-' are kept
RECURSIVE FormEncode(_)
FormEncode(chars) ==
    IF chars = <<>> THEN <<>>
    ELSE (CASE Head(chars) = " " -> <<"+">>
            [] Head(chars) = "," -> <<"%", "2", "C">>
            [] Head(chars) = ":" -> <<"%", "3", "A">>
            [] OTHER -> <<Head(chars)>>) \o FormEncode(Tail(chars))

\* the parser of URLSearchParams: '+' is a space, %XX is the byte XX
RECURSIVE FormDecode(_)
FormDecode(chars) ==
    IF chars = <<>> THEN <<>>
    ELSE IF Head(chars) = "+" THEN <<" ">> \o FormDecode(Tail(chars))
    ELSE IF Len(chars) >= 3 /\ SubSeq(chars, 1, 3) = <<"%", "2", "C">>
         THEN <<",">> \o FormDecode(SubSeq(chars, 4, Len(chars)))
    ELSE IF Len(chars) >= 3 /\ SubSeq(chars, 1, 3) = <<"%", "3", "A">>
         THEN <<":">> \o FormDecode(SubSeq(chars, 4, Len(chars)))
    ELSE <<Head(chars)>> \o FormDecode(Tail(chars))

\* params.set(key, value) for a key not yet set
ParamsSet(params, key, value) == Append(params, [key |-> key, value |-> value])

ParamsHas(params, key) == \E i \in 1..Len(params) : params[i].key = key

\* params.get(key) for a key that is set
ParamsGet(params, key) ==
    params[CHOOSE i \in 1..Len(params) : params[i].key = key /\ \A j \in 1..(i - 1) : params[j].key # key].value

\* if (filters.viewMode !== 'global') params.set('viewMode', filters.viewMode)
EncodeViewMode(f, params) ==
    IF f.viewMode # "global" THEN ParamsSet(params, "viewMode", f.viewMode) ELSE params

encodeUrlState(f) ==
    LET p0 == <<>>
        p1 == IF f.selectedModel # ALL
              THEN ParamsSet(p0, "model", FormEncode(f.selectedModel)) ELSE p0
        p2 == IF f.selectedPrompt # ALL
              THEN ParamsSet(p1, "prompt", FormEncode(f.selectedPrompt)) ELSE p1
        p3 == ParamsSet(p2, "metric", f.selectedMetric)
        p4 == IF f.modelSelection.type # "all"
              THEN ParamsSet(p3, "selectionType", f.modelSelection.type) ELSE p3
        p5 == IF f.modelSelection.type # "all" /\ Len(f.modelSelection.models) > 0
              THEN ParamsSet(p4, "selectedModels", FormEncode(Join(f.modelSelection.models, ",")))
              ELSE p4
        p6 == EncodeViewMode(f, p5)
        \* null and '' are both falsy
        p7 == IF f.drilldownPrompt # NoPrompt /\ f.drilldownPrompt # <<>>
              THEN ParamsSet(p6, "drilldownPrompt", FormEncode(f.drilldownPrompt)) ELSE p6
    IN  p7

\* array.includes(x)
Includes(array, x) == \E i \in 1..Len(array) : array[i] = x

\* { ...state, [key]: value } on a Partial<FilterState>, a function on the
\* fields that are set
Put(state, key, value) ==
    [x \in (DOMAIN state) \cup {key} |-> IF x = key THEN value ELSE state[x]]

\* the decoded value of a parameter, '' when it is not set (null and '' are
\* both falsy, which is all the decoder asks)
ParamChars(params, key) ==
    IF ParamsHas(params, key) THEN FormDecode(ParamsGet(params, key)) ELSE <<>>

\* the value of a parameter that holds a word of an enumeration, '' when it
\* is not set
ParamWord(params, key) == IF ParamsHas(params, key) THEN ParamsGet(params, key) ELSE ""

decodeUrlState(params, models, prompts) ==
    LET s0 == [x \in {} |-> 0]
        \* legacy model selection
        model == ParamChars(params, "model")
        s1 == IF model # <<>> /\ (model = ALL \/ Includes(models, model))
              THEN IF model = ALL
                   THEN Put(Put(Put(s0, "selectedModel", model),
                                "modelSelection", [type |-> "all", models |-> <<>>]),
                            "viewMode", "global")
                   ELSE Put(Put(Put(s0, "selectedModel", model),
                                "modelSelection", [type |-> "single", models |-> <<model>>]),
                            "viewMode", "model")
              ELSE s0
        prompt == ParamChars(params, "prompt")
        s2 == IF prompt # <<>> /\ (prompt = ALL \/ Includes(prompts, prompt))
              THEN Put(s1, "selectedPrompt", prompt) ELSE s1
        metric == ParamWord(params, "metric")
        s3 == IF metric # "" /\ metric \in MetricName
              THEN Put(s2, "selectedMetric", metric) ELSE s2
        \* new model selection system
        selectionType == ParamWord(params, "selectionType")
        selectedModelsParam == ParamChars(params, "selectedModels")
        selectedModels ==
            IF selectedModelsParam # <<>>
            THEN SelectSeq(Split(selectedModelsParam, ","), LAMBDA m : Includes(models, m))
            ELSE <<>>
        s4 == IF selectionType # "" /\ selectionType \in {"all", "subset", "single"}
              THEN LET t == Put(s3, "modelSelection",
                                [type |-> selectionType, models |-> selectedModels])
                   IN  IF selectionType = "all"
                       THEN Put(Put(t, "selectedModel", ALL), "viewMode", "global")
                       ELSE IF selectionType = "single" /\ Len(selectedModels) = 1
                       THEN Put(Put(t, "selectedModel", selectedModels[1]), "viewMode", "model")
                       ELSE IF selectionType = "subset"
                       THEN Put(Put(t, "selectedModel", ALL), "viewMode", "subset")
                       ELSE t
              ELSE s3
        viewMode == ParamWord(params, "viewMode")
        s5 == IF viewMode # "" /\ viewMode \in {"global", "subset", "model", "prompt"}
              THEN Put(s4, "viewMode", viewMode) ELSE s4
        drilldownPrompt == ParamChars(params, "drilldownPrompt")
        s6 == IF drilldownPrompt # <<>> /\ Includes(prompts, drilldownPrompt)
              THEN Put(s5, "drilldownPrompt", drilldownPrompt) ELSE s5
    IN  s6

\* { ...prev.filters, ...urlState }
MergeFilters(prev, urlState) ==
    [x \in DOMAIN prev |-> IF x \in DOMAIN urlState THEN urlState[x] ELSE prev[x]]

(* App and ModelSelector: the handlers that change the filters *)

\* a handler that also moves the view mode to the one of the new selection
handleModelSelectionChangeWithView(f, modelSelection) ==
    [f EXCEPT !.modelSelection = modelSelection,
              !.viewMode = IF modelSelection.type = "all" THEN "global"
                           ELSE IF modelSelection.type = "single" THEN "model" ELSE "subset",
              !.drilldownPrompt = IF modelSelection.type = "single" THEN @ ELSE NoPrompt]

\* a handler that keeps the drill-down in every view mode
handleViewModeChangeKeepingDrilldown(f, viewMode) ==
    [f EXCEPT !.viewMode = viewMode]

\* handleModelSelectionChange: the drill-down is kept for a single model only
handleModelSelectionChange(f, modelSelection) ==
    [f EXCEPT !.modelSelection = modelSelection,
              !.drilldownPrompt = IF modelSelection.type = "single" THEN @ ELSE NoPrompt]

\* handleViewModeChange: the drill-down is kept in prompt mode only
handleViewModeChange(f, viewMode) ==
    [f EXCEPT !.viewMode = viewMode,
              !.drilldownPrompt = IF viewMode = "prompt" THEN @ ELSE NoPrompt]

\* handlePromptSelect
handlePromptSelect(f, promptId) ==
    [f EXCEPT !.drilldownPrompt = promptId, !.viewMode = "prompt"]

\* ModelSelector.handleModelToggle: the new selection
ToggledSelection(modelSelection, modelId) ==
    LET newModels == IF Includes(modelSelection.models, modelId)
                     THEN SelectSeq(modelSelection.models, LAMBDA m : m # modelId)
                     ELSE Append(modelSelection.models, modelId)
    IN  [type |-> IF Len(newModels) = 0 THEN "all"
                  ELSE IF Len(newModels) = 1 THEN "single" ELSE "subset",
         models |-> newModels]

\* The models and prompts of the loaded CSV; one model name holds a comma
ModelComma == <<"a", ",", "c">>
CsvModels  == <<ModelA, ModelComma, ModelC>>
CsvPrompts == <<PromptB, PromptC>>

-----------------------------------------------------------------------------
(* lib/reshape: getUniqueModels, getUniquePrompts, getUniqueMetrics, and
   App.processData *)

\* the characters of the model, in the order of their UTF-16 code units
CodeUnits ==
    <<" ", ",", "-", ".", "0", "1", "2", "3", "4", "5", "6", "7", "8",
      "9", ":", "A", "B", "C", "D", "E", "F", "G", "H", "I", "J", "K",
      "L", "M", "N", "O", "P", "Q", "R", "S", "T", "U", "V", "W", "X",
      "Y", "Z", "_", "a", "b", "c", "d", "e", "f", "g", "h", "i", "j",
      "k", "l", "m", "n", "o", "p", "q", "r", "s", "t", "u", "v", "w",
      "x", "y", "z">>

CodeUnit(c) == CHOOSE i \in 1..Len(CodeUnits) : CodeUnits[i] = c

\* the order of Array.prototype.sort() without a comparator: by code units
RECURSIVE CodeUnitLess(_, _)
CodeUnitLess(a, b) ==
    IF b = <<>> THEN FALSE
    ELSE IF a = <<>> THEN TRUE
    ELSE IF Head(a) # Head(b) THEN CodeUnit(Head(a)) < CodeUnit(Head(b))
    ELSE CodeUnitLess(Tail(a), Tail(b))

\* a.match(/^p(\d+)$/)
MatchesPNumber(s) ==
    /\ Len(s) >= 2
    /\ s[1] = "p"
    /\ \A i \in 2..Len(s) : CodeUnit(s[i]) \in CodeUnit("0")..CodeUnit("9")

\* parseInt of a string of digits
RECURSIVE ParseInt(_)
ParseInt(digits) ==
    IF digits = <<>> THEN 0
    ELSE 10 * ParseInt(SubSeq(digits, 1, Len(digits) - 1))
         + (CodeUnit(digits[Len(digits)]) - CodeUnit("0"))

\* the comparator of getUniquePrompts is negative: numeric for p01, p02, ...,
\* a.localeCompare(b) otherwise, which on names made of lower-case letters
\* and digits is the order of the code units
PromptLess(a, b) ==
    IF MatchesPNumber(a) /\ MatchesPNumber(b)
    THEN ParseInt(Tail(a)) < ParseInt(Tail(b))
    ELSE CodeUnitLess(a, b)

\* the comparators of the three sorts: "models" and "metrics" have none
SortsBefore(a, b, order) ==
    CASE order = "models"  -> CodeUnitLess(a, b)
      [] order = "prompts" -> PromptLess(a, b)
      [] order = "metrics" -> CodeUnitLess(MetricChars(a), MetricChars(b))

\* Array.prototype.sort, which is stable: x goes in front of the first element
\* it sorts before
RECURSIVE InsertBy(_, _, _)
InsertBy(x, sorted, order) ==
    IF sorted = <<>> THEN <<x>>
    ELSE IF SortsBefore(x, Head(sorted), order) THEN <<x>> \o sorted
    ELSE <<Head(sorted)>> \o InsertBy(x, Tail(sorted), order)

RECURSIVE SortFrom(_, _, _, _)
SortFrom(array, i, acc, order) ==
    IF i > Len(array) THEN acc
    ELSE SortFrom(array, i + 1, InsertBy(array[i], acc, order), order)

\* new Set() filled by forEach: the distinct values in the order of insertion
RECURSIVE SetFrom(_, _, _)
SetFrom(values, i, acc) ==
    IF i > Len(values) THEN acc
    ELSE SetFrom(values, i + 1,
                 IF \E j \in 1..Len(acc) : acc[j] = values[i] THEN acc
                 ELSE Append(acc, values[i]))

getUniqueModels(rows) ==
    SortFrom(SetFrom([i \in 1..Len(rows) |-> rows[i].model], 1, <<>>), 1, <<>>, "models")

getUniquePrompts(rows) ==
    SortFrom(SetFrom([i \in 1..Len(rows) |-> rows[i].prompt], 1, <<>>), 1, <<>>, "prompts")

getUniqueMetrics(rows) ==
    SortFrom(SetFrom([i \in 1..Len(rows) |-> rows[i].metric], 1, <<>>), 1, <<>>, "metrics")

\* state.error when there is none; a message is a one-element sequence
NoError == <<"null">>

\* App.processData: the fields its setState writes
processData(csvData) ==
    LET long == matrixToLong(csvData)
    IN  [matrixData |-> csvData,
         longData |-> long,
         models |-> getUniqueModels(long),
         prompts |-> getUniquePrompts(long),
         metrics |-> getUniqueMetrics(long),
         error |-> NoError]

\* a row of results.csv as loadCSVData returns it
CsvRow(model, metric, values) ==
    [metricLabel |-> model \o <<"_">> \o MetricChars(metric), values |-> values]

PromptP2  == <<"p", "2">>
PromptP10 == <<"p", "1", "0">>

\* The files results.csv may be: the first has the models and prompts above,
\* the second numbered prompts and a second metric
CsvFiles ==
    {<<CsvRow(ModelC, "quality", <<<<PromptB, Int2Num(3)>>, <<PromptC, Null>>>>),
       CsvRow(ModelA, "quality", <<<<PromptB, Int2Num(1)>>, <<PromptC, Int2Num(2)>>>>),
       CsvRow(ModelComma, "quality", <<<<PromptB, Int2Num(1)>>, <<PromptC, Int2Num(1)>>>>)>>,
     <<CsvRow(ModelA, "quality", <<<<PromptP10, Int2Num(4)>>, <<PromptP2, Int2Num(5)>>>>),
       CsvRow(ModelA, "energy_wh", <<<<PromptP10, Num(1, 2)>>, <<PromptP2, Int2Num(2)>>>>)>>}

\* the messages the catch branch of loadData stores: the message of the Error
\* loadCSVData throws, or the fallback for a rejection that is not an Error
LoadErrors == {<<"Failed to load CSV: 404">>, <<"Failed to load CSV data">>}

-----------------------------------------------------------------------------
(* App: the setState updaters, applied in order at the next render *)

\* setState(prev => ({ ...prev, filters: { ...prev.filters, ...urlState } }))
MergeUpdate(urlState) == [kind |-> "merge", urlState |-> urlState, value |-> FALSE]

\* an updater that sets the flag whatever it is handed
LoadingUpdateAlwaysOn(value) == [kind |-> "loading", urlState |-> <<>>, value |-> TRUE]

\* setState(prev => ({ ...prev, isLoading: value }))
LoadingUpdate(value) == [kind |-> "loading", urlState |-> <<>>, value |-> value]

\* processData: setState(prev => ({ ...prev, matrixData, longData, models, prompts,
\* metrics, error: null }))
DataUpdate(csvData) == [kind |-> "data", urlState |-> <<>>, value |-> processData(csvData)]

\* the catch branch: setState(prev => ({ ...prev, error, isLoading: false }))
ErrorUpdate(message) == [kind |-> "error", urlState |-> <<>>, value |-> message]

\* state.filters after the updaters from position i on
RECURSIVE FiltersAfter(_, _, _)
FiltersAfter(f, queue, i) ==
    IF i > Len(queue) THEN f
    ELSE FiltersAfter(IF queue[i].kind = "merge" THEN MergeFilters(f, queue[i].urlState) ELSE f,
                      queue, i + 1)

\* state.isLoading after the updaters from position i on
RECURSIVE LoadingAfter(_, _, _)
LoadingAfter(loading, queue, i) ==
    IF i > Len(queue) THEN loading
    ELSE LoadingAfter(CASE queue[i].kind = "loading" -> queue[i].value
                        [] queue[i].kind = "error" -> FALSE
                        [] OTHER -> loading,
                      queue, i + 1)

\* the data and the error of the state after the updaters from position i on
RECURSIVE DataAfter(_, _, _)
DataAfter(data, queue, i) ==
    IF i > Len(queue) THEN data
    ELSE DataAfter(CASE queue[i].kind = "data" -> queue[i].value
                     [] queue[i].kind = "error" -> [data EXCEPT !.error = queue[i].value]
                     [] OTHER -> data,
                   queue, i + 1)

HasUpdate(queue, kind) == \E i \in 1..Len(queue) : queue[i].kind = kind

\* The filters a page may be shared with: a selection of CSV models (no comma
\* in their names), applied or not, with or without a drill-down
OpenedFilters ==
    {[DefaultFilters EXCEPT !.modelSelection = sel, !.viewMode = vm, !.drilldownPrompt = dp] :
        sel \in {[type |-> "single", models |-> <<ModelA>>],
                 [type |-> "single", models |-> <<ModelC>>],
                 [type |-> "subset", models |-> <<ModelA, ModelC>>],
                 [type |-> "subset", models |-> <<ModelC, ModelA>>]},
        vm \in {"global", "subset", "model", "prompt"},
        dp \in {NoPrompt, PromptB}}

-----------------------------------------------------------------------------
(* Idle values of the state a specification does not exercise *)

IdleParse   == metricLabel = <<>> /\ parsed = NoParse
IdleReshape == matrixData = <<>> /\ longData = <<>>
IdleDerived == heap = <<>> /\ factors = <<>> /\ overrideWithDerived = FALSE /\ result = 0
IdleKpi     == kpiInput = <<>> /\ kpiLocals = <<>> /\ kpis = <<>>
IdleHeatmap == mvArgs = <<>> /\ matrixValues = <<>> /\ minMax = <<>>
IdleRound   == source = <<>> /\ rounds = 0
IdleUrl     ==
    /\ filters = <<>> /\ availableModels = <<>> /\ availablePrompts = <<>>
    /\ locationHash = <<>> /\ restored = <<>>
IdleApp     ==
    /\ isLoading = FALSE /\ effectQueue = <<>> /\ updates = <<>>
    /\ loadState = "idle" /\ openedModels = <<>>
    /\ error = NoError /\ metrics = <<>>

-----------------------------------------------------------------------------
(* The label parser on its own *)

InitParse ==
    /\ pc = "parse"
    /\ metricLabel \in Labels
    /\ parsed = NoParse
    /\ IdleReshape /\ IdleDerived /\ IdleKpi /\ IdleHeatmap /\ IdleRound /\ IdleUrl /\ IdleApp

CallParseMetricLabel ==
    /\ pc = "parse"
    /\ parsed' = parseMetricLabel(metricLabel)
    /\ pc' = "parsed"
    /\ UNCHANGED <<metricLabel, reshapeVars, derivedVars, kpiVars, heatmapVars, roundVars, urlVars, appVars>>

NextParse == CallParseMetricLabel

SpecParse == InitParse /\ [][NextParse]_vars

\* the ways to read a trimmed, lower-cased label as model + separator + metric,
\* the model non-empty and the metric one of the six kinds
Decompositions(t) ==
    {d \in [ok : {TRUE}, model : {SubSeq(t, 1, i) : i \in 1..Len(t)}, metric : MetricName] :
        \E sep \in {"_", "-"} : t = d.model \o <<sep>> \o MetricChars(d.metric)}

\* C1: a label of the form model + '_' or '-' + known metric (after trim and
\* lower-casing, model non-empty) parses to exactly that model and metric;
\* every other label parses to null.
C1_ParseExact ==
    pc = "parsed" =>
        LET t == ToLowerCase(Trim(metricLabel))
        IN  IF Decompositions(t) = {}
            THEN parsed = NoParse
            ELSE \A d \in Decompositions(t) : parsed = d

C1_Witness ==
    /\ pc = "parsed"
    /\ metricLabel = <<" ", "M", "_", "Q", "u", "a", "l", "i", "t", "y", " ">>
    /\ parsed = Parse(<<"m">>, "quality")

-----------------------------------------------------------------------------
(* The reshaper *)

InitReshape ==
    /\ pc = "reshape"
    /\ matrixData \in SeqsUpTo(MatrixRows, MaxMatrixRows)
    /\ longData = <<>>
    /\ IdleParse /\ IdleDerived /\ IdleKpi /\ IdleHeatmap /\ IdleRound /\ IdleUrl /\ IdleApp

CallMatrixToLong ==
    /\ pc = "reshape"
    /\ longData' = matrixToLong(matrixData)
    /\ pc' = "reshaped"
    /\ UNCHANGED <<matrixData, parseVars, derivedVars, kpiVars, heatmapVars, roundVars, urlVars, appVars>>

NextReshape == CallMatrixToLong

SpecReshape == InitReshape /\ [][NextReshape]_vars

\* how many times x occurs in the sequence s
Count(s, x) == Cardinality({i \in 1..Len(s) : s[i] = x})

\* the cells of the matrix, each a (row index, entry index)
Cells(rows) == UNION {{<<i, j>> : j \in 1..Len(rows[i].values)} : i \in 1..Len(rows)}

CellRecord(rows, c) ==
    LET row == rows[c[1]]
        p == parseMetricLabel(row.metricLabel)
    IN  LongRow(p.model, row.values[c[2]][1], p.metric, row.values[c[2]][2])

\* C2 (as claimed): every record matrixToLong returns has a finite value.
C2_AllValuesFinite ==
    pc = "reshaped" => \A i \in 1..Len(longData) : longData[i].value.k = "num"

\* C4: the output is, as a multiset, the records of the non-null, non-NaN cells
\* (undefined counts as NaN) of the rows whose label parses; a row whose label does
\* not parse contributes nothing and the rows after it are still processed.
C4_OmitsAndContinues ==
    pc = "reshaped" =>
        LET good == {c \in Cells(matrixData) :
                        /\ Decompositions(ToLowerCase(Trim(matrixData[c[1]].metricLabel))) # {}
                        /\ matrixData[c[1]].values[c[2]][2] \notin {Null, NaN, Undef}}
            rec(c) == CellRecord(matrixData, c)
        IN  /\ Len(longData) = Cardinality(good)
            /\ \A c \in good :
                   Count(longData, rec(c)) = Cardinality({e \in good : rec(e) = rec(c)})

C4_Witness ==
    /\ pc = "reshaped"
    /\ Len(matrixData) = 2
    /\ ~parseMetricLabel(matrixData[1].metricLabel).ok
    /\ Len(matrixData[1].values) = 2
    /\ matrixData[2].values = <<<<PromptB, NaN>>, <<PromptC, Int2Num(1)>>>>
    /\ longData = <<LongRow(ModelA, PromptC, "quality", Int2Num(1))>>

-----------------------------------------------------------------------------
(* The derived-metrics synthesizer.  heap[1] is the caller's array. *)

InitDerived ==
    /\ pc = "derive"
    /\ heap \in {<<rows>> : rows \in SeqsUpTo(DerivedInputRows, MaxDerivedRows)}
    /\ factors \in FactorChoices
    /\ overrideWithDerived \in BOOLEAN
    /\ result = 0
    /\ IdleParse /\ IdleReshape /\ IdleKpi /\ IdleHeatmap /\ IdleRound /\ IdleUrl /\ IdleApp

CallAddDerivedMetrics ==
    /\ pc = "derive"
    /\ LET r == addDerivedMetrics(heap, 1, factors, overrideWithDerived)
       IN  heap' = r.heap /\ result' = r.ref
    /\ pc' = "derived"
    /\ UNCHANGED <<factors, overrideWithDerived, parseVars, reshapeVars, kpiVars, heatmapVars, roundVars, urlVars, appVars>>

NextDerived == CallAddDerivedMetrics

SpecDerived == InitDerived /\ [][NextDerived]_vars

\* the caller's relation and the returned one, once the call has returned
DIn == heap[1]
DOut == heap[result]

\* the records of s for one (model, prompt, metric) triple, in order
OfTriple(s, m, p, k) ==
    SelectSeq(s, LAMBDA r : r.model = m /\ r.prompt = p /\ r.metric = k)

HasEnergy(s, m, p) ==
    \E i \in 1..Len(s) : s[i].model = m /\ s[i].prompt = p /\ s[i].metric = "energy_wh"

\* the records the call added: those the output holds more often than the input
Added(in, out) == {out[i] : i \in {j \in 1..Len(out) : Count(out, out[j]) > Count(in, out[j])}}

\* const DERIVED_METRICS
DERIVED_METRICS == {"co2_g", "led_hours", "onlinevideo_min"}

\* C3 (as claimed): every record the synthesizer returns, for an input whose
\* metrics are in the enumeration, has one of the six enumerated metric kinds.
C3_MetricsInEnumeration ==
    pc = "derived" => \A i \in 1..Len(DOut) : DOut[i].metric \in MetricName

\* C5 (as claimed): with override = false, the records of every derived-kind
\* triple that the input holds are the same in the output.
C5_NoOverrideKeepsExisting ==
    (pc = "derived" /\ ~overrideWithDerived) =>
        \A i \in 1..Len(DIn) :
            DIn[i].metric \in DERIVED_METRICS =>
                OfTriple(DOut, DIn[i].model, DIn[i].prompt, DIn[i].metric)
                    = OfTriple(DIn, DIn[i].model, DIn[i].prompt, DIn[i].metric)

PositiveFactors(f) ==
    /\ Sign(f.ledBulbWatts) > 0
    /\ Sign(f.gridIntensityGCO2PerKwh) > 0
    /\ Sign(f.onlineVideoWhPerMin) > 0

\* the exact value of one derived quantity for energy e (finite) and positive
\* factors f, as a fraction in lowest terms
ExactDerived(kind, e, f) ==
    CASE kind = "co2"
           -> Num(e.n * f.gridIntensityGCO2PerKwh.n, e.d * 1000 * f.gridIntensityGCO2PerKwh.d)
      [] kind = "led"
           -> Num(e.n * 60 * f.ledBulbWatts.d, e.d * f.ledBulbWatts.n)
      [] kind = "video"
           -> Num(e.n * f.onlineVideoWhPerMin.d, e.d * f.onlineVideoWhPerMin.n)

\* the quantity a metric key stands for
QuantityOf(metric) ==
    CASE metric = "co2_g" -> "co2"
      [] metric \in {"led_hours", "led_minutes"} -> "led"
      [] metric = "onlinevideo_min" -> "video"

\* v is x rounded to 3 decimal places: a whole number t of thousandths, at most
\* half a thousandth from x
IsRounded3(v, x) ==
    /\ v.k = "num"
    /\ (1000 * v.n) % v.d = 0
    /\ LET t == (1000 * v.n) \div v.d
           x1000 == Num(1000 * x.n, x.d)
       IN  2 * Abs(t * x1000.d - x1000.n) <= x1000.d

\* the energy reading of a pair: its last energy_wh record
LastEnergy(s, m, p) ==
    LET idx == {i \in 1..Len(s) :
                   s[i].model = m /\ s[i].prompt = p /\ s[i].metric = "energy_wh"}
    IN  s[CHOOSE i \in idx : \A j \in idx : j <= i].value

\* C6 (as claimed): with override = true, every pair with an energy reading has
\* exactly one record of each derived kind in the output, holding the freshly
\* computed value.
C6_OverrideReplaces ==
    (pc = "derived" /\ overrideWithDerived) =>
        \A i \in 1..Len(DIn) : \A kind \in DERIVED_METRICS :
            DIn[i].metric = "energy_wh" =>
                LET recs == OfTriple(DOut, DIn[i].model, DIn[i].prompt, kind)
                IN  /\ Len(recs) = 1
                    /\ PositiveFactors(factors) =>
                           IsRounded3(recs[1].value,
                                      ExactDerived(QuantityOf(kind),
                                                   LastEnergy(DIn, DIn[i].model, DIn[i].prompt),
                                                   factors))

EnergyRows(s) == {i \in 1..Len(s) : s[i].metric = "energy_wh"}

C7_EnergyDriven ==
    pc = "derived" => \A r \in Added(DIn, DOut) : HasEnergy(DIn, r.model, r.prompt)

\* C8: the call leaves the caller's array, its records and the factors as they
\* were, and returns another array.
C8_ArgumentsUnchanged ==
    [][pc = "derive" => (heap'[1] = heap[1] /\ factors' = factors /\ result' # 1)]_vars

C8_Witness ==
    /\ pc = "derived"
    /\ overrideWithDerived
    /\ Len(DIn) = 3
    /\ \E i \in 1..Len(DIn) : Count(DOut, DIn[i]) = 0
    /\ Len(DOut) > Len(DIn)

-----------------------------------------------------------------------------
(* The KPI aggregation *)

InitKpi ==
    /\ pc = "kpi"
    /\ kpiInput \in SeqsUpTo(KpiInputRows, MaxKpiRows)
    /\ kpiLocals = <<>>
    /\ kpis = <<>>
    /\ IdleParse /\ IdleReshape /\ IdleDerived /\ IdleHeatmap /\ IdleRound /\ IdleUrl /\ IdleApp

CallCalculateKpis ==
    /\ pc = "kpi"
    /\ kpiLocals' = KpiLocalsOf(kpiInput)
    /\ kpis' = IF KpiThrows(kpiInput) THEN <<>> ELSE calculateKpis(kpiInput)
    /\ pc' = IF KpiThrows(kpiInput) THEN "kpi_threw" ELSE "kpi_done"
    /\ UNCHANGED <<kpiInput, parseVars, reshapeVars, derivedVars, heatmapVars, roundVars, urlVars, appVars>>

NextKpi == CallCalculateKpis

SpecKpi == InitKpi /\ [][NextKpi]_vars

\* the records of s that hold a finite value of the metric for model m
FiniteOf(s, metric, m) ==
    {i \in 1..Len(s) : s[i].metric = metric /\ s[i].model = m /\ s[i].value.k = "num"}

\* the models with at least one finite value of the metric
ModelsWith(s, metric) ==
    {s[i].model : i \in {j \in 1..Len(s) : s[j].metric = metric /\ s[j].value.k = "num"}}

\* fractions <<numerator, denominator>> of integers, not reduced
FracAdd(x, y) == <<x[1] * y[2] + y[1] * x[2], x[2] * y[2]>>
FracOver(x, n) == <<x[1], x[2] * n>>

\* the sum of the values of the records I of s
RECURSIVE ValueSum(_, _)
ValueSum(s, I) ==
    IF I = {} THEN <<0, 1>>
    ELSE LET i == CHOOSE j \in I : TRUE
         IN  FracAdd(<<s[i].value.n, s[i].value.d>>, ValueSum(s, I \ {i}))

\* the arithmetic mean of model m's finite values of the metric
ModelMean(s, metric, m) ==
    FracOver(ValueSum(s, FiniteOf(s, metric, m)), Cardinality(FiniteOf(s, metric, m)))

\* the sum of the model means over the models M
RECURSIVE MeanSum(_, _, _)
MeanSum(s, metric, M) ==
    IF M = {} THEN <<0, 1>>
    ELSE LET m == CHOOSE x \in M : TRUE
         IN  FracAdd(ModelMean(s, metric, m), MeanSum(s, metric, M \ {m}))

\* the unweighted average of the per-model means
MacroMean(s, metric) ==
    FracOver(MeanSum(s, metric, ModelsWith(s, metric)), Cardinality(ModelsWith(s, metric)))

\* the number v is the fraction x
IsFraction(v, x) == v.k = "num" /\ v.n * x[2] = x[1] * v.d

DistinctModels(s) == {s[i].model : i \in 1..Len(s)}

\* C10: with more than one distinct model in the slice, each of the summary
\* means of quality, latency_s and energy_wh (before rounding) is the
\* unweighted average of the per-model means over the models that have a finite
\* value of the metric, and null when no model has one.
C10_MacroAverage ==
    (pc = "kpi_done" /\ Cardinality(DistinctModels(kpiInput)) > 1) =>
        /\ kpiLocals.useMacroAverage
        /\ \A q \in {<<"quality", kpiLocals.meanQuality>>,
                      <<"latency_s", kpiLocals.meanLatency>>,
                      <<"energy_wh", kpiLocals.meanEnergy>>} :
               IF ModelsWith(kpiInput, q[1]) = {}
               THEN q[2] = Null
               ELSE IsFraction(q[2], MacroMean(kpiInput, q[1]))

\* model a has quality 1 and 4, model a:b has quality 1: the macro average is
\* (2.5 + 1) / 2 = 1.75, where the pooled mean would be 2
C10_Witness ==
    /\ pc = "kpi_done"
    /\ kpiInput = <<LongRow(ModelA, PromptB, "quality", Int2Num(1)),
                    LongRow(ModelA, PromptC, "quality", Int2Num(4)),
                    LongRow(ModelAB, PromptB, "quality", Int2Num(1))>>
    /\ kpiLocals.meanQuality = Num(7, 4)
    /\ kpis.meanQuality = Num(175, 100)

\* C11: with exactly one distinct model in the slice, the single-model path and
\* the macro path give the same meanQuality, meanLatency and meanEnergy, the
\* call returns them, and each is the plain mean of the metric's finite values
\* (null when there is none).
C11_PathsAgree ==
    (pc = "kpi_done" /\ Cardinality(DistinctModels(kpiInput)) = 1) =>
        /\ ~kpiLocals.useMacroAverage
        /\ KpiMeansOn(kpiInput, FALSE) = KpiMeansOn(kpiInput, TRUE)
        /\ kpiLocals.meanQuality = KpiMeansOn(kpiInput, TRUE).meanQuality
        /\ kpiLocals.meanLatency = KpiMeansOn(kpiInput, TRUE).meanLatency
        /\ kpiLocals.meanEnergy = KpiMeansOn(kpiInput, TRUE).meanEnergy
        /\ kpiLocals.meanQuality = calculateMean(ValuesOf(kpiInput, "quality"))
        /\ kpiLocals.meanLatency = calculateMean(ValuesOf(kpiInput, "latency_s"))
        /\ kpiLocals.meanEnergy = calculateMean(ValuesOf(kpiInput, "energy_wh"))

\* one model with quality 1, 4 and Infinity: both paths give 2.5
C11_Witness ==
    /\ pc = "kpi_done"
    /\ kpiInput = <<LongRow(ModelA, PromptB, "quality", Int2Num(1)),
                    LongRow(ModelA, PromptC, "quality", PosInf),
                    LongRow(ModelA, PromptC, "quality", Int2Num(4))>>
    /\ kpiLocals.meanQuality = Num(5, 2)
    /\ KpiMeansOn(kpiInput, TRUE).meanQuality = Num(5, 2)
    /\ kpiLocals.meanLatency = Null

-----------------------------------------------------------------------------
(* The latency percentile of the KPI aggregation, on longer slices *)

InitP95 ==
    /\ pc = "kpi"
    /\ kpiInput \in P95Inputs
    /\ kpiLocals = <<>>
    /\ kpis = <<>>
    /\ IdleParse /\ IdleReshape /\ IdleDerived /\ IdleHeatmap /\ IdleRound /\ IdleUrl /\ IdleApp

SpecP95 == InitP95 /\ [][NextKpi]_vars

\* the latency_s records of s with a finite value, whatever their model
FiniteLatency(s) == {i \in 1..Len(s) : s[i].metric = "latency_s" /\ s[i].value.k = "num"}

\* ceil(n * 0.95) - 1 clamped from below: the least c with 100 c >= 95 n, less 1
P95Index(n) ==
    LET c == CHOOSE x \in 0..n : 100 * x >= 95 * n /\ \A y \in 0..n : 100 * y >= 95 * n => x <= y
    IN  IF c - 1 < 0 THEN 0 ELSE c - 1

\* v stands at position idx (from 0) of the values of the records I of s
\* sorted ascending
AtSortedIndex(s, I, v, idx) ==
    /\ \E i \in I : s[i].value = v
    /\ Cardinality({i \in I : NumLess(s[i].value, v)}) <= idx
    /\ Cardinality({i \in I : ~NumLess(v, s[i].value)}) >= idx + 1

\* C12: p95Latency is taken over all finite latency_s values of the slice,
\* whatever models they belong to: with n of them it is the value at index
\* ceil(n * 0.95) - 1 (not below 0) of the ascending order, that index is a
\* position 0..n-1 of the list, and it is null when n = 0.
C12_P95OverAllRecords ==
    pc = "kpi_done" =>
        LET I == FiniteLatency(kpiInput)
            n == Cardinality(I)
        IN  IF n = 0 THEN kpiLocals.p95Latency = Null
            ELSE /\ P95Index(n) \in 0..(n - 1)
                 /\ AtSortedIndex(kpiInput, I, kpiLocals.p95Latency, P95Index(n))

\* latencies 1..10 spread over two models: index 9, value 10
C12_Witness ==
    /\ pc = "kpi_done"
    /\ kpiInput = LatencyRows(10, 1, TRUE, 0, NaN)
    /\ P95Index(10) = 9
    /\ kpiLocals.p95Latency = Int2Num(10)
    /\ kpis.p95Latency = Int2Num(10)

-----------------------------------------------------------------------------
(* The quality-per-Wh ratio *)

NonFiniteNumber(v) == v.k \in {"nan", "inf", "ninf"}

\* C13: qualityPerWh is computed exactly when the means of quality and energy
\* are both non-null and the mean energy is above 0, and is then their quotient;
\* in every other case (a null mean, a mean energy of 0 or below) it is null,
\* and it is never Infinity or NaN, before or after the rounding of the return.
C13_QualityPerWh ==
    pc = "kpi_done" =>
        LET q == kpiLocals.meanQuality
            e == kpiLocals.meanEnergy
            r == kpiLocals.qualityPerWh
        IN  /\ (r # Null) <=> (q # Null /\ e # Null /\ e.k = "num" /\ e.n > 0)
            /\ r # Null => IsFraction(r, <<q.n * e.d, q.d * e.n>>)
            /\ ~NonFiniteNumber(r)
            /\ ~NonFiniteNumber(kpis.qualityPerWh)
            /\ (kpis.qualityPerWh = Null) <=> (r = Null)

\* a mean quality over a mean energy of 0 or below: no ratio
C13_Witness ==
    /\ pc = "kpi_done"
    /\ kpiLocals.meanQuality = Int2Num(4)
    /\ kpiLocals.meanEnergy \in {Int2Num(0), Int2Num(-2)}
    /\ kpiLocals.qualityPerWh = Null
    /\ kpis.qualityPerWh = Null

-----------------------------------------------------------------------------
(* Missing data in the KPI summary *)

\* the slice holds no finite value of the metric
NoFinite(s, metric) == \A i \in 1..Len(s) : s[i].metric = metric => s[i].value.k # "num"

AllNullKpis ==
    [meanQuality |-> Null, meanLatency |-> Null, p95Latency |-> Null,
     meanEnergy |-> Null, totalEnergy |-> Null, qualityPerWh |-> Null]

\* C14: the call never throws, and each field of the returned summary whose
\* metric has no finite value in the slice is null (not 0, not NaN); the empty
\* slice gives six nulls.
C14_NullForNoData ==
    /\ pc # "kpi_threw"
    /\ pc = "kpi_done" =>
          /\ NoFinite(kpiInput, "quality") => kpis.meanQuality = Null
          /\ NoFinite(kpiInput, "latency_s") =>
                 kpis.meanLatency = Null /\ kpis.p95Latency = Null
          /\ NoFinite(kpiInput, "energy_wh") =>
                 kpis.meanEnergy = Null /\ kpis.totalEnergy = Null
          /\ (NoFinite(kpiInput, "quality") \/ NoFinite(kpiInput, "energy_wh")) =>
                 kpis.qualityPerWh = Null
          /\ kpiInput = <<>> => kpis = AllNullKpis

\* energy readings that are all NaN, next to a finite quality: the energy
\* fields and the ratio are null, the quality is not
C14_Witness ==
    /\ pc = "kpi_done"
    /\ kpiInput = <<LongRow(ModelAB, PromptB, "energy_wh", NaN),
                    LongRow(ModelAB, PromptB, "quality", Int2Num(1))>>
    /\ kpis.meanEnergy = Null
    /\ kpis.totalEnergy = Null
    /\ kpis.qualityPerWh = Null
    /\ kpis.meanQuality = Int2Num(1)

-----------------------------------------------------------------------------
(* The heatmap's matrix: getMetricValues, then getMinMax on its result *)

InitHeatmap ==
    /\ pc = "cells"
    /\ mvArgs \in MvArgs
    /\ matrixValues = <<>>
    /\ minMax = <<>>
    /\ IdleParse /\ IdleReshape /\ IdleDerived /\ IdleKpi /\ IdleRound /\ IdleUrl /\ IdleApp

CallGetMetricValues ==
    /\ pc = "cells"
    /\ matrixValues' = getMetricValues(mvArgs.longData, mvArgs.metric, mvArgs.models, mvArgs.prompts)
    /\ pc' = "minmax"
    /\ UNCHANGED <<mvArgs, minMax, parseVars, reshapeVars, derivedVars, kpiVars, roundVars, urlVars, appVars>>

CallGetMinMax ==
    /\ pc = "minmax"
    /\ minMax' = getMinMax(matrixValues)
    /\ pc' = "drawn"
    /\ UNCHANGED <<mvArgs, matrixValues, parseVars, reshapeVars, derivedVars, kpiVars, roundVars, urlVars, appVars>>

NextHeatmap == CallGetMetricValues \/ CallGetMinMax

SpecHeatmap == InitHeatmap /\ [][NextHeatmap]_vars

\* the positions of the relation's records for one cell
Matching(i, j) ==
    {r \in 1..Len(mvArgs.longData) :
        /\ mvArgs.longData[r].model = mvArgs.models[i]
        /\ mvArgs.longData[r].prompt = mvArgs.prompts[j]
        /\ mvArgs.longData[r].metric = mvArgs.metric}

\* C15: the matrix has one row per model and one cell per prompt; a cell is
\* the value of the first record of the relation for its (model, prompt,
\* metric), and NaN when the relation has none.
C15_DenseMatrix ==
    pc \in {"minmax", "drawn"} =>
        /\ Len(matrixValues) = Len(mvArgs.models)
        /\ \A i \in 1..Len(mvArgs.models) :
               /\ Len(matrixValues[i]) = Len(mvArgs.prompts)
               /\ \A j \in 1..Len(mvArgs.prompts) :
                      IF Matching(i, j) = {}
                      THEN matrixValues[i][j] = NaN
                      ELSE \E r \in Matching(i, j) :
                               /\ \A q \in Matching(i, j) : r <= q
                               /\ matrixValues[i][j] = mvArgs.longData[r].value

\* a triple held twice (1, then 4) and a pair without a record
C15_Witness ==
    /\ pc = "minmax"
    /\ mvArgs.longData = <<LongRow(ModelA, PromptB, "quality", Int2Num(1)),
                           LongRow(ModelA, PromptB, "quality", Int2Num(4))>>
    /\ mvArgs.metric = "quality"
    /\ mvArgs.models = <<ModelA, ModelC>>
    /\ mvArgs.prompts = <<PromptB, PromptC>>
    /\ matrixValues = <<<<Int2Num(1), NaN>>, <<NaN, NaN>>>>

\* the finite cells of a matrix, as <<row, column>> positions
FiniteCells(values) ==
    {c \in (1..Len(values)) \X (1..MaxAxis + 1) :
        c[2] <= Len(values[c[1]]) /\ values[c[1]][c[2]].k = "num"}

-----------------------------------------------------------------------------
(* Invalid conversion factors in the synthesizer *)

\* C17 (as claimed): no record the call adds has a value that is Infinity or
\* NaN, whatever the factors; a quantity whose division is invalid is left out.
C17_NoNonFiniteDerived ==
    pc = "derived" => \A r \in Added(DIn, DOut) : r.value.k = "num"

-----------------------------------------------------------------------------
(* The reshape round trip: build the matrix from the relation, reshape it,
   and again from the result *)

InitRound ==
    /\ pc = "build"
    /\ source \in SourceRelations
    /\ rounds = 0
    /\ matrixData = <<>>
    /\ longData = <<>>
    /\ IdleParse /\ IdleDerived /\ IdleKpi /\ IdleHeatmap /\ IdleUrl /\ IdleApp

\* the matrix is built from the source the first time, and from the
\* reshaper's own output after that
BuildMatrix ==
    /\ pc \in {"build", "reshaped"}
    /\ rounds < MaxRounds
    /\ matrixData' = BuildMatrixRows(IF rounds = 0 THEN source ELSE longData)
    /\ rounds' = rounds + 1
    /\ pc' = "reshape"
    /\ UNCHANGED <<source, longData, parseVars, derivedVars, kpiVars, heatmapVars, urlVars, appVars>>

NextRound == BuildMatrix \/ CallMatrixToLong

SpecRound == InitRound /\ [][NextRound]_vars

\* the same records the same number of times, in any order
SameUpToOrder(s, t) ==
    /\ Len(s) = Len(t)
    /\ \A i \in 1..Len(s) : Count(s, s[i]) = Count(t, s[i])

\* C18: for a well-formed relation, build-then-reshape returns the relation up
\* to the order of its records, and does so again when it is repeated on its
\* own result.
C18_RoundTrip ==
    (pc = "reshaped" /\ rounds >= 1) => SameUpToOrder(longData, source)

\* after the second pass: a model that ends like a row label, a value of 0,
\* and records that came back in another order
C18_Witness ==
    /\ pc = "reshaped"
    /\ rounds = 2
    /\ Len(source) = 3
    /\ longData # source
    /\ \E i \in 1..Len(longData) :
           longData[i].model = ModelAQ /\ longData[i].value = Int2Num(0)

-----------------------------------------------------------------------------
(* Sharing a URL: the filters are changed through the handlers of the loaded
   page, the hash is written from them, and a reader's page decodes it over
   the default filters *)

InitUrl ==
    /\ pc = "ui"
    /\ filters = DefaultFilters
    /\ availableModels = CsvModels
    /\ availablePrompts = CsvPrompts
    /\ locationHash = <<>>
    /\ restored = <<>>
    /\ IdleParse /\ IdleReshape /\ IdleDerived /\ IdleKpi /\ IdleHeatmap /\ IdleRound /\ IdleApp

UrlFrame == UNCHANGED <<pc, availableModels, availablePrompts, locationHash, restored,
                        parseVars, reshapeVars, derivedVars, kpiVars, heatmapVars, roundVars, appVars>>

\* the 'All Models' button
HandleAllModels ==
    /\ pc = "ui"
    /\ filters' = handleViewModeChange(
                      handleModelSelectionChange(filters, [type |-> "all", models |-> <<>>]),
                      "global")
    /\ UrlFrame

\* a model's checkbox
HandleModelToggle ==
    /\ pc = "ui"
    /\ \E i \in 1..Len(availableModels) :
           filters' = handleModelSelectionChange(
                          filters, ToggledSelection(filters.modelSelection, availableModels[i]))
    /\ UrlFrame

\* the 'Apply Filter' button, shown unless all models are selected
HandleApplyFilter ==
    /\ pc = "ui"
    /\ filters.modelSelection.type # "all"
    /\ filters' = handleViewModeChange(
                      filters, IF filters.modelSelection.type = "single" THEN "model" ELSE "subset")
    /\ UrlFrame

\* the two detail-level buttons, shown for a single model
HandleDetailLevel ==
    /\ pc = "ui"
    /\ filters.modelSelection.type = "single"
    /\ \E viewMode \in {"model", "prompt"} : filters' = handleViewModeChange(filters, viewMode)
    /\ UrlFrame

\* a prompt picked in the drill-down, shown in prompt mode for a single model
HandlePromptSelect ==
    /\ pc = "ui"
    /\ filters.viewMode = "prompt"
    /\ filters.modelSelection.type = "single"
    /\ \E i \in 1..Len(availablePrompts) :
           filters' = handlePromptSelect(filters, availablePrompts[i])
    /\ UrlFrame

\* the hash is written from the filters and decoded on a page that has the
\* same models and prompts and the default filters
ShareUrl ==
    /\ pc = "ui"
    /\ locationHash' = encodeUrlState(filters)
    /\ restored' = MergeFilters(DefaultFilters,
                                decodeUrlState(encodeUrlState(filters),
                                               availableModels, availablePrompts))
    /\ pc' = "shared"
    /\ UNCHANGED <<filters, availableModels, availablePrompts,
                   parseVars, reshapeVars, derivedVars, kpiVars, heatmapVars, roundVars, appVars>>

NextUrl ==
    \/ HandleAllModels
    \/ HandleModelToggle
    \/ HandleApplyFilter
    \/ HandleDetailLevel
    \/ HandlePromptSelect
    \/ ShareUrl

SpecUrl == InitUrl /\ [][NextUrl]_vars

\* C19 (as claimed): the filters decoded from the shared URL have the model
\* selection (type and models), the view mode, the drill-down prompt and the
\* metric of the filters the URL was written from.
C19_UrlRoundTrip ==
    pc = "shared" =>
        /\ restored.modelSelection = filters.modelSelection
        /\ restored.viewMode = filters.viewMode
        /\ restored.drilldownPrompt = filters.drilldownPrompt
        /\ restored.selectedMetric = filters.selectedMetric

-----------------------------------------------------------------------------
(* App opened on a shared URL: the mount effects run in the order of their
   declaration, a render applies the queued updaters and runs the effects
   whose dependencies changed, and the CSV load completes between two of these
   steps *)

InitApp ==
    /\ pc = "app"
    /\ filters = DefaultFilters
    /\ availableModels = <<>>
    /\ availablePrompts = <<>>
    /\ \E f \in OpenedFilters :
           /\ locationHash = encodeUrlState(f)
           /\ openedModels = f.modelSelection.models
    /\ restored = <<>>
    /\ isLoading = FALSE
    /\ effectQueue = <<"decode", "write", "load">>
    /\ updates = <<>>
    /\ loadState = "idle"
    /\ matrixData = <<>> /\ longData = <<>> /\ metrics = <<>>
    /\ error = NoError
    /\ IdleParse /\ IdleDerived /\ IdleKpi /\ IdleHeatmap /\ IdleRound

EngineFrame == UNCHANGED <<pc, restored, openedModels, parseVars, derivedVars,
                           kpiVars, heatmapVars, roundVars>>

\* useEffect(..., [state.models, state.prompts]): decode the hash against the
\* models and prompts of this render
DecodeEffect ==
    /\ pc = "app"
    /\ effectQueue # <<>> /\ Head(effectQueue) = "decode"
    /\ LET urlState == decodeUrlState(locationHash, availableModels, availablePrompts)
       IN  updates' = IF DOMAIN urlState # {} THEN Append(updates, MergeUpdate(urlState))
                      ELSE updates
    /\ effectQueue' = Tail(effectQueue)
    /\ UNCHANGED <<filters, availableModels, availablePrompts, locationHash, isLoading, loadState,
                   matrixData, longData, metrics, error>>
    /\ EngineFrame

\* useEffect(..., [state.filters]): updateUrlState(state.filters)
UrlWriteEffect ==
    /\ pc = "app"
    /\ effectQueue # <<>> /\ Head(effectQueue) = "write"
    /\ locationHash' = encodeUrlState(filters)
    /\ effectQueue' = Tail(effectQueue)
    /\ UNCHANGED <<filters, availableModels, availablePrompts, isLoading, updates, loadState,
                   matrixData, longData, metrics, error>>
    /\ EngineFrame

\* useEffect(..., [processData]): loadData() up to its await
LoadDataEffect ==
    /\ pc = "app"
    /\ effectQueue # <<>> /\ Head(effectQueue) = "load"
    /\ updates' = Append(updates, LoadingUpdate(TRUE))
    /\ loadState' = "fetching"
    /\ effectQueue' = Tail(effectQueue)
    /\ UNCHANGED <<filters, availableModels, availablePrompts, locationHash, isLoading,
                   matrixData, longData, metrics, error>>
    /\ EngineFrame

\* loadData() after its await: processData(csvData), or the catch branch, and
\* the finally branch
LoadComplete ==
    /\ pc = "app"
    /\ loadState = "fetching"
    /\ effectQueue = <<>>
    /\ \/ \E csvData \in CsvFiles :
              /\ updates' = updates \o <<DataUpdate(csvData), LoadingUpdate(FALSE)>>
              /\ loadState' = "loaded"
       \/ \E message \in LoadErrors :
              /\ updates' = updates \o <<ErrorUpdate(message), LoadingUpdate(FALSE)>>
              /\ loadState' = "failed"
    /\ UNCHANGED <<filters, availableModels, availablePrompts, locationHash, isLoading, effectQueue,
                   matrixData, longData, metrics, error>>
    /\ EngineFrame

\* a render: the queued updaters are applied, and the effects whose
\* dependencies are new objects are queued in the order of their declaration
Render ==
    /\ pc = "app"
    /\ effectQueue = <<>>
    /\ updates # <<>>
    /\ filters' = FiltersAfter(filters, updates, 1)
    /\ isLoading' = LoadingAfter(isLoading, updates, 1)
    /\ LET data == DataAfter([matrixData |-> matrixData, longData |-> longData,
                              models |-> availableModels, prompts |-> availablePrompts,
                              metrics |-> metrics, error |-> error], updates, 1)
       IN  /\ matrixData' = data.matrixData
           /\ longData' = data.longData
           /\ availableModels' = data.models
           /\ availablePrompts' = data.prompts
           /\ metrics' = data.metrics
           /\ error' = data.error
    /\ effectQueue' = (IF HasUpdate(updates, "data") THEN <<"decode">> ELSE <<>>)
                       \o (IF HasUpdate(updates, "merge") THEN <<"write">> ELSE <<>>)
    /\ updates' = <<>>
    /\ UNCHANGED <<locationHash, loadState>>
    /\ EngineFrame

NextApp == DecodeEffect \/ UrlWriteEffect \/ LoadDataEffect \/ LoadComplete \/ Render

SpecApp == InitApp /\ [][NextApp]_vars

\* the load has completed and nothing is left to run
Settled == loadState = "loaded" /\ effectQueue = <<>> /\ updates = <<>>

\* C20 (as claimed): once the CSV has loaded and the page has settled, the
\* selected models are the models of the hash the page was opened with.
C20_SelectionRestored ==
    (pc = "app" /\ Settled) => filters.modelSelection.models = openedModels

-----------------------------------------------------------------------------
(* CSV-supplied LED values and the composite key of the synthesizer *)

\* the LED-equivalent records of a relation, under either metric key
LedRecords(s, m, p) ==
    SelectSeq(s, LAMBDA r : r.model = m /\ r.prompt = p
                            /\ r.metric \in {"led_hours", "led_minutes"})

\* C21 (as claimed): with override = false, a pair that has an energy reading
\* and a led_hours record in the input gains no computed LED-equivalent record:
\* its LED records in the output are those of the input.
C21_CsvLedAuthoritative ==
    (pc = "derived" /\ ~overrideWithDerived) =>
        \A i \in 1..Len(DIn) :
            (DIn[i].metric = "led_hours" /\ HasEnergy(DIn, DIn[i].model, DIn[i].prompt)) =>
                LedRecords(DOut, DIn[i].model, DIn[i].prompt)
                    = LedRecords(DIn, DIn[i].model, DIn[i].prompt)

\* C22 (as claimed): every record the call computes carries the model and the
\* prompt of an energy_wh record of the input, also when a name holds ':', and
\* two energy records of different pairs never have the same composite key.
C22_PairCarriedOver ==
    pc = "derived" =>
        /\ \A r \in Added(DIn, DOut) :
               \E i \in EnergyRows(DIn) :
                   DIn[i].model = r.model /\ DIn[i].prompt = r.prompt
        /\ \A i, j \in EnergyRows(DIn) :
               PairKey(DIn[i].model, DIn[i].prompt) = PairKey(DIn[j].model, DIn[j].prompt)
                   => (DIn[i].model = DIn[j].model /\ DIn[i].prompt = DIn[j].prompt)

-----------------------------------------------------------------------------
(* The selection, the view mode and the drill-down of the filters *)

\* the type the checkbox handler gives to a list of models
TypeOfCount(models) ==
    IF Len(models) = 0 THEN "all" ELSE IF Len(models) = 1 THEN "single" ELSE "subset"

\* C23 (as claimed): in every state of the App the type of the model selection
\* agrees with the number of selected models: 'all' for none, 'single' for
\* one, 'subset' for two or more.
C23_TypeAgreesWithCount ==
    pc = "app" => filters.modelSelection.type = TypeOfCount(filters.modelSelection.models)

\* the drill-down of filters f is set only in prompt mode for a single model
DrilldownOnlyInPromptMode(f) ==
    f.drilldownPrompt # NoPrompt => (f.viewMode = "prompt" /\ f.modelSelection.type = "single")

-----------------------------------------------------------------------------
(* The main content of the App *)

\* App: the views the main content renders for filters f when the page is
\* neither loading nor in error
ViewsRendered(f) ==
    (IF f.viewMode \in {"global", "subset"} THEN {"GlobalCharts"} ELSE {})
    \cup (IF f.viewMode = "model" /\ f.modelSelection.type = "single"
          THEN {"ModelDetail"} ELSE {})
    \cup (IF f.viewMode = "prompt" /\ f.modelSelection.type = "single"
          THEN {"PromptDrilldown"} ELSE {})

\* C25 (as claimed): when the page is neither loading nor in error, exactly
\* one of the three views is rendered, and ModelDetail and PromptDrilldown are
\* rendered with a model: models[0] is defined.
C25_ExactlyOneView ==
    (pc = "ui" /\ ~isLoading) =>
        /\ Cardinality(ViewsRendered(filters)) = 1
        /\ ViewsRendered(filters) \cap {"ModelDetail", "PromptDrilldown"} # {}
               => Len(filters.modelSelection.models) >= 1

\* the fields of the filters a checkbox leaves alone
ViewFieldsUnchanged ==
    /\ filters'.viewMode = filters.viewMode
    /\ filters'.selectedMetric = filters.selectedMetric
    /\ filters'.selectedModel = filters.selectedModel
    /\ filters'.selectedPrompt = filters.selectedPrompt

\* C26 (as claimed): a step that toggles a model's checkbox leaves the view
\* mode, the selected metric, the selected model and the selected prompt
\* unchanged, and the view mode changes only in a step of 'All Models', Apply
\* Filter, a detail-level button or a prompt selection.
C26_ToggleChangesSelectionOnly ==
    [][/\ HandleModelToggle => ViewFieldsUnchanged
       /\ filters'.viewMode # filters.viewMode =>
              (HandleAllModels \/ HandleApplyFilter \/ HandleDetailLevel \/ HandlePromptSelect)]_vars

\* a second model has been ticked in the detail view of a single model, and
\* the view mode is still 'model'
C26_Witness ==
    /\ pc = "ui"
    /\ filters.viewMode = "model"
    /\ filters.modelSelection.type = "subset"

-----------------------------------------------------------------------------
(* The order of the metric kinds in the parser *)

\* the (separator, metric kind) suffix tests of the loop that succeed on a
\* trimmed, lower-cased label with a non-empty model
SuffixTests(t) ==
    {s \in [sep : {"_", "-"}, metric : {SUPPORTED_METRICS[i] : i \in 1..Len(SUPPORTED_METRICS)}] :
        /\ EndsWith(t, <<s.sep>> \o MetricChars(s.metric))
        /\ Len(t) > Len(MetricChars(s.metric)) + 1}

\* C28 (as claimed): for every label at most one of the twelve suffix tests
\* succeeds with a non-empty model, and the parser returns the model and the
\* metric of that test, so the order of the metric kinds does not matter.
C28_OrderIndependent ==
    pc = "parsed" =>
        LET t == ToLowerCase(Trim(metricLabel))
        IN  /\ Cardinality(SuffixTests(t)) <= 1
            /\ \A s \in SuffixTests(t) :
                   parsed = Parse(SliceOffEnd(t, Len(MetricChars(s.metric)) + 1), s.metric)

\* a label that holds the names of two metric kinds, parsed by its last one
C28_Witness ==
    /\ pc = "parsed"
    /\ metricLabel = <<"a", "_", "q", "u", "a", "l", "i", "t", "y", "_", "c", "o", "2", "_", "g">>
    /\ parsed = Parse(<<"a", "_", "q", "u", "a", "l", "i", "t", "y">>, "co2_g")

-----------------------------------------------------------------------------
(* The mount-time load.  React runs every queued effect and every pending
   render; nothing makes the fetch of results.csv answer. *)

SpecLoad ==
    /\ InitApp
    /\ [][NextApp]_vars
    /\ WF_vars(DecodeEffect)
    /\ WF_vars(UrlWriteEffect)
    /\ WF_vars(LoadDataEffect)
    /\ WF_vars(Render)

\* loadCSVData has resolved or rejected
LoadAnswered == loadState \in {"loaded", "failed"}

\* the data of the state is the one processData computes from one matrix
DataFromOneMatrix ==
    /\ matrixData \in CsvFiles
    /\ longData = matrixToLong(matrixData)
    /\ availableModels = getUniqueModels(longData)
    /\ availablePrompts = getUniquePrompts(longData)
    /\ metrics = getUniqueMetrics(longData)

\* the data of the initial state, which is all a failed mount-time load has
\* to leave alone
DataUntouched ==
    /\ matrixData = <<>> /\ longData = <<>>
    /\ availableModels = <<>> /\ availablePrompts = <<>> /\ metrics = <<>>

\* C27 (as claimed): once loadCSVData has resolved or rejected, isLoading
\* eventually becomes false and stays false; when the updaters of a rejected
\* load have been applied the error is non-null and the data is unchanged, and
\* when those of a resolved load have been applied the error is null and
\* longData, models, prompts and metrics are derived from the one loaded matrix.
C27_LoadSettles ==
    /\ [](LoadAnswered => <>[](~isLoading))
    /\ []((loadState = "failed" /\ updates = <<>>) => (error # NoError /\ DataUntouched))
    /\ []((loadState = "loaded" /\ updates = <<>>) => (error = NoError /\ DataFromOneMatrix))

\* the file with numbered prompts has been loaded and rendered
C27_Witness ==
    /\ loadState = "loaded"
    /\ updates = <<>>
    /\ ~isLoading
    /\ availablePrompts = <<PromptP2, PromptP10>>
    /\ metrics = <<"energy_wh", "quality">>

====
